---- MODULE Spec2Model ----
(***************************************************************************)
(* A model of artie's remote-data access layer: the TTL cache              *)
(* (cache_manager.py), the retrying fetch pipeline and the cached remote   *)
(* operations (scraper.py), and the batch run (app.py).                    *)
(*                                                                         *)
(* Time is the value time.time() returns, in seconds, as an integer.  The  *)
(* clock moves in steps of ClockStep seconds.                              *)
(***************************************************************************)
EXTENDS Integers, Sequences, FiniteSets, TLC

\* ------------------------------------------------------------------ bounds

\* The number of keys a caller addresses a region with.
NumKeys == 2

\* One step of the clock, in seconds, and the last instant the model reaches.
ClockStep == 150

MaxClockSteps == 2

\* The number of cache operations of one behaviour of SpecCache.
MaxOps == 3

\* The number of calls the workers make in one behaviour of SpecRace.
MaxRaceOps == 3

\* The number of calls of the cached operation in one behaviour of SpecMemo.
MaxMemoCalls == 3

\* The number of calls of get in one behaviour of SpecStats.
MaxCountOps == 5

\* The number of calls of clear_rate_limit_cache in one behaviour of SpecClear.
MaxClearCalls == 2

\* The ROMs of the selected system.
NumListed == 3

\* The width in bits of the integers hash() returns, 64 in the interpreter.
HashBits == 2

\* The callers of get that run at the same time, the calls of get of one behaviour
\* of SpecFetch, and the largest max_retries a caller passes.
NumWorkers == 2

MaxCalls == 2

MaxRetriesArg == 5

\* The calls of a cached operation of one behaviour of SpecAccessor.
MaxAccCalls == 3

\* The work items of a batch, the largest thread count the user configures and the
\* largest maxthreads the server advertises.
NumItems == 3

MaxUserThreads == 2

MaxServerThreads == 2

\* The usernames get_game_data is called with, the roms it is called for, the calls
\* of one behaviour of SpecQuota, and the clock of SpecQuota: its step in seconds and
\* the number of steps.
NumUsers == 2

NumRoms == 2

MaxQuotaCalls == 3

QuotaClockStep == 300

MaxQuotaClockSteps == 3

\* The region sizes, scaled down: cache_manager.py:72-74 set 1000, 500, 200.  The
\* memory region holds only the markers, one per username and the forbidden marker,
\* so it keeps room for the markers of all the usernames.
max_memory_entries == 2

max_api_entries == 1

max_file_entries == 1

\* --------------------------------------------------------------- constants

DEFAULT_API_TTL == 3600

DEFAULT_FILE_TTL == 300

DEFAULT_GAME_DATA_TTL == 86400

\* ttl=300 of the forbidden marker, and the cap of the backoff wait.
FORBIDDEN_TTL == 300

BACKOFF_CAP == 10

\* @api_cached(ttl=300) of get_user_data, @api_cached(ttl=3600) of get_game_data.
USER_DATA_TTL == 300

GAME_DATA_TTL == 3600

\* ------------------------------------------------------------------- state

VARIABLES
    now,        \* time.time()
    cache,      \* region -> the region's dict, as the sequence of its entries in dict order
    stats,      \* CacheManager._stats
    ret,        \* what the last cache operation was and what it returned
    evicted,    \* the entries the last set removed to enforce the size limit
    ops,        \* the number of cache operations so far
    fetch,      \* worker -> its call of scraper.get: position, arguments, locals, outcome
    forbiddenSeen,  \* <<t>> once a transport call of get was answered 403 at time t, else <<>>
    began,      \* the number of calls of get begun so far
    fetches,    \* cache key -> how often the wrapped function of a cached operation ran
    memo,       \* cache key -> <<[value, at]>>: the last run that returned, else <<>>
    lastCall,   \* the last call of a cached operation and what it returned
    threads,    \* self.config.threads
    configured, \* the thread count the configuration file gave
    serverMax,  \* <<m>> once the server advertised maxthreads = m, else <<>>
    bpc,        \* where the main thread is in startup and _scrape_all_roms
    future,     \* item -> the state of its future
    outcome,    \* item -> what its worker returned or raised
    yielded,    \* the futures as_completed has yielded to the loop
    completed,  \* the local completed of _scrape_all_roms
    quota_exceeded, \* the local quota_exceeded of _scrape_all_roms
    logged,     \* the items the loop logged an error for
    cancelIdx,  \* the next future of the cancel loop
    pendingAtHalt,  \* the items not yet started when the loop saw RateLimitError
    quotaSeen,  \* username -> <<[at, rom]>>: the last fetch of get_game_data that raised
                \* RateLimitError, else <<>>
    lastGame,   \* the last call of get_game_data and what it did
    gameCalls,  \* the number of calls of get_game_data so far
    race,  \* worker -> its call of get, set or invalidate on the api region: position and locals
    raceOps, \* the number of such calls begun so far
    memoCall,  \* worker -> its call of the cached operation: position, what it fetched, what it returned
    memoLog,  \* the values the calls wrote, the time of the last write, whether two calls missed together
    memoCalls, \* the number of calls of the cached operation begun so far
    disk,  \* <<[region, file, orig, at]>> once save_to_disk wrote a region to its file, else <<>>
    fresh, \* <<[region, dict, at]>> once load_from_disk loaded that file into a fresh store, else <<>>
    keyPair, \* the last two calls whose cache keys were derived, their key strings and their keys
    lastOut,  \* what the latest transport call of each worker's call of get did
    fdata, \* what each worker's call of fetch_data returned or raised
    counting,  \* each worker's position in the += of a counter and the value it loaded
    seen,  \* the counters as get_stats returned them last
    countOps, \* the number of calls of get begun in SpecStats
    lastClear,  \* the username and the outcome of the last call of clear_rate_limit_cache
    clears, \* the number of calls of clear_rate_limit_cache
    item, \* one work item: what its network calls and its saves did, and what the worker gave its future
    lastSet, \* the last set call with its ttl argument
    screen  \* the windows of the application: the ROM list shown and the selection in it

\* The variables of the cache operations called directly, of the fetch pipeline, of
\* the cached operations and of the batch run.
cacheOpVars == <<ret, evicted, ops>>

fetchVars == <<fetch, forbiddenSeen, began>>

accVars == <<fetches, memo, lastCall>>

batchVars == <<threads, configured, serverMax, bpc, future, outcome, yielded,
               completed, quota_exceeded, logged, cancelIdx, pendingAtHalt>>

quotaVars == <<quotaSeen, lastGame, gameCalls>>

raceVars == <<race, raceOps>>

memoVars == <<memoCall, memoLog, memoCalls>>

diskVars == <<disk, fresh>>

keyVars == <<keyPair>>

pipeVars == <<lastOut, fdata>>

countVars == <<counting, seen, countOps>>

clearVars == <<lastClear, clears>>

itemVars == <<item>>

ttlVars == <<lastSet>>

screenVars == <<screen>>

\* The variables of the specifications other than the first four.
extVars == <<quotaVars, raceVars, memoVars, diskVars, keyVars, pipeVars, countVars, clearVars, itemVars, ttlVars, screenVars>>

vars == <<now, cache, stats, ret, evicted, ops, fetch, forbiddenSeen, began,
          fetches, memo, lastCall, threads, configured, serverMax, bpc, future,
          outcome, yielded, completed, quota_exceeded, logged, cancelIdx,
          pendingAtHalt,
          quotaSeen, lastGame, gameCalls,
          race, raceOps,
          memoCall, memoLog, memoCalls,
          disk, fresh,
          keyPair,
          lastOut, fdata,
          counting, seen, countOps,
          lastClear, clears,
          item,
          lastSet,
          screen>>

Regions == {"memory", "api", "file"}

Keys == {"k" \o ToString(i) : i \in 1..NumKeys}

\* Python's None, and the payloads a caller stores.
None == "None"

Payloads == {"a", "b"}

Values == Payloads \cup {None}

MaxClock == ClockStep * MaxClockSteps

\* The ttl arguments of set: <<>> is None (no ttl given), <<d>> is a ttl of d seconds.
TtlArgs == {<<>>, <<0>>, <<ClockStep>>}

\* ---------------------------------------------------------- the cache store

\* CacheEntry.is_expired at time t.
is_expired_boundary(e, t) == t >= e.timestamp + e.ttl

is_expired(e, t) == t > e.timestamp + e.ttl

_get_max_size(cache_type) ==
    IF cache_type = "api" THEN max_api_entries
    ELSE IF cache_type = "file" THEN max_file_entries
    ELSE max_memory_entries

_get_default_ttl(cache_type) ==
    IF cache_type = "api" THEN DEFAULT_API_TTL
    ELSE IF cache_type = "file" THEN DEFAULT_FILE_TTL
    ELSE DEFAULT_GAME_DATA_TTL

\* Python dict operations on a dict kept as the sequence of its entries.
DictKeys(d) == {d[i].key : i \in 1..Len(d)}

DictIndex(d, k) == CHOOSE i \in 1..Len(d) : d[i].key = k

DictGet(d, k) == d[DictIndex(d, k)]

DictDel(d, k) == SelectSeq(d, LAMBDA e : e.key # k)

\* d[k] = e: an existing key keeps its place in the dict order, a new one goes last.
DictSet(d, k, e) ==
    IF k \in DictKeys(d)
    THEN [i \in 1..Len(d) |-> IF d[i].key = k THEN e ELSE d[i]]
    ELSE Append(d, e)

\* A purge that removes nothing.
_cleanup_nothing(d, t) == d

\* What _cleanup_expired_entries leaves of d at time t.
_cleanup_expired_entries(d, t) == SelectSeq(d, LAMBDA e : ~is_expired(e, t))

\* The place of d[i] in sorted(d.items(), key=timestamp): the sort is stable, so
\* entries of equal timestamp keep their dict order.
SortRank(d, i) ==
    Cardinality({j \in 1..Len(d) :
        \/ d[j].timestamp < d[i].timestamp
        \/ (d[j].timestamp = d[i].timestamp /\ j < i)}) + 1

\* The indices _enforce_cache_size_limit removes: the first len - max_size of the sort.
SizeVictimsNewest(d, max_size) ==
    IF Len(d) <= max_size THEN {}
    ELSE {i \in 1..Len(d) :
            Cardinality({j \in 1..Len(d) :
                \/ d[j].timestamp > d[i].timestamp
                \/ (d[j].timestamp = d[i].timestamp /\ j < i)}) + 1
            <= Len(d) - max_size}

SizeVictims(d, max_size) ==
    IF Len(d) <= max_size THEN {}
    ELSE {i \in 1..Len(d) : SortRank(d, i) <= Len(d) - max_size}

_enforce_cache_size_limit(d, max_size) ==
    LET victims == {d[i].key : i \in SizeVictims(d, max_size)}
    IN  SelectSeq(d, LAMBDA e : e.key \notin victims)

\* ttl or default_ttl: None and 0 are both falsy.
EffectiveTtl(ttl, cache_type) ==
    IF ttl = <<>> \/ ttl = <<0>> THEN _get_default_ttl(cache_type) ELSE ttl[1]

\* What CacheManager.get returns for key k of dict d at time t.
GetResult(d, k, t) ==
    IF k \notin DictKeys(d) THEN None
    ELSE IF is_expired(DictGet(d, k), t) THEN None
    ELSE DictGet(d, k).data

\* A get that takes the entry it serves out of the dict.
GetDictConsuming(d, k, t) ==
    IF k \in DictKeys(d) THEN DictDel(d, k) ELSE d

\* The dict and the counters after CacheManager.get.
GetDict(d, k, t) ==
    IF k \in DictKeys(d) /\ is_expired(DictGet(d, k), t) THEN DictDel(d, k) ELSE d

\* Counters of a get that counts every key it finds in the dict as a hit.
GetStatsFoundIsHit(s, d, k, t) ==
    IF k \notin DictKeys(d) THEN [s EXCEPT !.misses = @ + 1]
    ELSE IF is_expired(DictGet(d, k), t)
         THEN [s EXCEPT !.hits = @ + 1, !.evictions = @ + 1]
    ELSE [s EXCEPT !.hits = @ + 1]

GetStats(s, d, k, t) ==
    IF k \notin DictKeys(d) THEN [s EXCEPT !.misses = @ + 1]
    ELSE IF is_expired(DictGet(d, k), t)
         THEN [s EXCEPT !.misses = @ + 1, !.evictions = @ + 1]
    ELSE [s EXCEPT !.hits = @ + 1]

\* The dict after CacheManager.set: insert, purge the expired, enforce the size.
SetInserted(d, k, v, ttl, cache_type, t) ==
    DictSet(d, k, [key |-> k, data |-> v, timestamp |-> t,
                   ttl |-> EffectiveTtl(ttl, cache_type)])

SetDict(d, k, v, ttl, cache_type, t) ==
    _enforce_cache_size_limit(
        _cleanup_expired_entries(SetInserted(d, k, v, ttl, cache_type, t), t),
        _get_max_size(cache_type))

SetEvictions(d, k, v, ttl, cache_type, t) ==
    LET ins == SetInserted(d, k, v, ttl, cache_type, t)
        cln == _cleanup_expired_entries(ins, t)
    IN  (Len(ins) - Len(cln)) + Cardinality(SizeVictims(cln, _get_max_size(cache_type)))

SetSizeEvicted(d, k, v, ttl, cache_type, t) ==
    LET cln == _cleanup_expired_entries(SetInserted(d, k, v, ttl, cache_type, t), t)
    IN  {cln[i] : i \in SizeVictims(cln, _get_max_size(cache_type))}


\* ------------------------------------------------------- the fetch pipeline

Workers == 1..NumWorkers

Items == 1..NumItems

\* The max_retries a caller passes: none, the default of 3, and the largest.
RetryArgs == {0, 3, MaxRetriesArg}

forbidden_key == "forbidden_error_cache"

\* if cache_manager.get(...): the truth value of what get returned.
Truthy(v) == v # None

\* What session.get and raise_for_status can do: a response with a body, a response
\* with an empty body, a timeout, a connection error, another requests exception, an
\* exception of another kind, and raise_for_status raising HTTPError for a status of
\* 400 and above.
HttpErrorCodes == {400, 401, 403, 404, 418, 423, 426, 429, 430, 431, 500, 503}

TransportOutcomes ==
    {[t |-> x, code |-> 0] :
        x \in {"timeout", "connection", "request_exception", "unexpected"}}
    \cup {[t |-> x, code |-> 200] : x \in {"body", "empty"}}
    \cup {[t |-> "http_error", code |-> c] : c \in HttpErrorCodes}

\* bool(e.response): requests.Response.__bool__ returns Response.ok, which is False
\* for every status raise_for_status raises on (400 and above).
ResponseTruthy(code) == code < 400

\* status = e.response.status_code if e.response else 0
StatusSeen(code) == IF ResponseTruthy(code) THEN code ELSE 0

Return(v) == [act |-> "return", exc |-> v, mark |-> FALSE]

Raise(e) == [act |-> "raise", exc |-> e, mark |-> FALSE]

RetryMarking(e) == [act |-> "retry", exc |-> e, mark |-> TRUE]

Retry(e) == [act |-> "retry", exc |-> e, mark |-> FALSE]

\* The except requests.HTTPError handler, by the status it computed.
HttpErrorHandler(status) ==
    IF status = 400 THEN Raise("BadRequestError")
    ELSE IF status = 401 THEN Raise("APIClosedError")
    ELSE IF status = 403 THEN [act |-> "raise", exc |-> "ForbiddenError", mark |-> TRUE]
    ELSE IF status = 404 THEN Raise("ScraperError")
    ELSE IF status = 423 THEN Raise("APIFullyClosedError")
    ELSE IF status = 426 THEN Raise("SoftwareBlacklistedError")
    ELSE IF status = 429 THEN Raise("ThreadLimitError")
    ELSE IF status = 430 THEN Raise("RateLimitError")
    ELSE IF status = 431 THEN Raise("TooManyUnrecognizedError")
    ELSE IF status >= 500 THEN Retry("NetworkError")
    ELSE Raise("ScraperError")

\* One pass of the body of the retry loop over what the transport did.  The
\* NetworkError raised for an empty body is raised inside the try and is no requests
\* exception, so the except Exception clause takes it.
Classify(o) ==
    IF o.t = "body" THEN Return("content")
    ELSE IF o.t = "empty" THEN Retry("ScraperError")
    ELSE IF o.t = "timeout" THEN Retry("NetworkError")
    ELSE IF o.t = "http_error" THEN HttpErrorHandler(StatusSeen(o.code))
    ELSE IF o.t = "connection" THEN Retry("NetworkError")
    ELSE IF o.t = "request_exception" THEN Retry("NetworkError")
    ELSE Retry("ScraperError")

Min(a, b) == IF a < b THEN a ELSE b

wait_time_uncapped(attempt) == 2 ^ attempt

\* wait_time = min(2**attempt, 10)
wait_time(attempt) == Min(2 ^ attempt, BACKOFF_CAP)

\* A worker with no call of get in progress and none made yet.
IdleCall ==
    [pc |-> "idle", max_retries |-> 0, attempt |-> 0, sleeps |-> <<>>,
     transports |-> 0, last_exception |-> None, result |-> None, exhausted |-> FALSE,
     afterForbidden |-> FALSE]

\* A call that begins at time t begins after a 403 answer and within the marker's TTL.
BeginsAfterForbidden(t) ==
    /\ forbiddenSeen # <<>>
    /\ t <= forbiddenSeen[1] + FORBIDDEN_TTL

\* get(url, max_retries): the check of the forbidden marker, before any attempt.
\* The key of the marker is one constant: nothing get does before the transport
\* call reads url.
GetBegin(w, n) ==
    /\ fetch[w].pc = "idle"
    /\ began < MaxCalls
    /\ began' = began + 1
    /\ cache' = [cache EXCEPT !["memory"] = GetDict(@, forbidden_key, now)]
    /\ stats' = GetStats(stats, cache["memory"], forbidden_key, now)
    /\ LET open == Truthy(GetResult(cache["memory"], forbidden_key, now))
           call == [IdleCall EXCEPT !.max_retries = n,
                                    !.afterForbidden = BeginsAfterForbidden(now)]
       IN  fetch' = [fetch EXCEPT ![w] =
                IF open THEN [call EXCEPT !.result = "ForbiddenError"]
                ELSE [call EXCEPT !.pc = "request"]]
    /\ UNCHANGED <<now, forbiddenSeen>>

\* session.get(url, timeout=timeout) is issued.
GetRequest(w) ==
    /\ fetch[w].pc = "request"
    /\ fetch' = [fetch EXCEPT ![w].pc = "waiting", ![w].transports = @ + 1]
    /\ UNCHANGED <<now, cache, stats, forbiddenSeen, began>>

\* The call after a pass over a retryable failure e: sleep and go on, or, after the
\* last attempt, leave the loop and raise last_exception.
AfterRetryable(call, e) ==
    IF call.attempt < call.max_retries
    THEN [call EXCEPT !.pc = "sleep", !.last_exception = e]
    ELSE [call EXCEPT !.pc = "idle", !.last_exception = e, !.result = e,
                      !.exhausted = TRUE]

\* The transport call ends with outcome o and the loop body handles it.
GetResponse(w, o) ==
    /\ fetch[w].pc = "waiting"
    /\ LET c == Classify(o)
       IN  /\ fetch' = [fetch EXCEPT ![w] =
                IF c.act = "retry" THEN AfterRetryable(@, c.exc)
                ELSE [@ EXCEPT !.pc = "idle", !.result = c.exc]]
           /\ cache' = IF c.mark
                       THEN [cache EXCEPT !["memory"] =
                                SetDict(@, forbidden_key, "True", <<FORBIDDEN_TTL>>,
                                        "memory", now)]
                       ELSE cache
           /\ stats' = IF c.mark
                       THEN [stats EXCEPT !.evictions = @ +
                                SetEvictions(cache["memory"], forbidden_key, "True",
                                             <<FORBIDDEN_TTL>>, "memory", now)]
                       ELSE stats
    /\ forbiddenSeen' = IF o.t = "http_error" /\ o.code = 403 THEN <<now>>
                        ELSE forbiddenSeen
    /\ UNCHANGED <<now, began>>

\* time.sleep(wait_time), then the next pass of the loop.
GetSleep(w) ==
    /\ fetch[w].pc = "sleep"
    /\ fetch' = [fetch EXCEPT ![w].pc = "request",
                              ![w].sleeps = Append(@, wait_time(fetch[w].attempt)),
                              ![w].attempt = @ + 1]
    /\ UNCHANGED <<now, cache, stats, forbiddenSeen, began>>

\* ---------------------------------------------------- the cached operations

\* The key of a call stands for its operation and arguments: "k1" is a call of
\* get_user_data, every other key a call of get_game_data.
OpTtl(k) == IF k = "k1" THEN USER_DATA_TTL ELSE GAME_DATA_TTL

\* What the wrapped function does when it runs: it returns a payload or None, or
\* it raises.
FuncOutcomes ==
    {[raises |-> FALSE, value |-> v] : v \in Values}
    \cup {[raises |-> TRUE, value |-> e] :
            e \in {"ScraperError", "RateLimitError", "ForbiddenError"}}

NoCall == [key |-> "", value |-> None, raised |-> FALSE, fetched |-> FALSE,
           prevOk |-> FALSE, prevValue |-> None]

\* if cached_result is not None: the wrapper serves what the cache returned.
IsCacheHit(cached_result) == cached_result # None

\* An earlier run for key k returned, and time t is within its TTL window.
WithinWindow(k, t) == memo[k] # <<>> /\ t < memo[k][1].at + OpTtl(k)

\* wrapper(*args, **kwargs) of cached, for the call with key k; out is what the
\* wrapped function does if it runs.
CachedCallStoringErrors(k, out) ==
    /\ stats.hits + stats.misses < MaxAccCalls
    /\ LET cached_result == GetResult(cache["api"], k, now)
           afterGet == GetDict(cache["api"], k, now)
           afterGetStats == GetStats(stats, cache["api"], k, now)
           call == [NoCall EXCEPT !.key = k, !.prevOk = WithinWindow(k, now),
                        !.prevValue = IF memo[k] = <<>> THEN None ELSE memo[k][1].value]
       IN  IF IsCacheHit(cached_result)
           THEN /\ lastCall' = [call EXCEPT !.value = cached_result]
                /\ cache' = [cache EXCEPT !["api"] = afterGet]
                /\ stats' = afterGetStats
                /\ UNCHANGED <<fetches, memo>>
           ELSE /\ fetches' = [fetches EXCEPT ![k] = @ + 1]
                /\ lastCall' = [call EXCEPT !.value = out.value, !.raised = out.raises,
                                            !.fetched = TRUE]
                /\ IF out.raises
                   THEN /\ cache' = [cache EXCEPT !["api"] =
                                SetDict(afterGet, k, out.value, <<OpTtl(k)>>, "api", now)]
                        /\ stats' = [afterGetStats EXCEPT !.evictions = @ +
                                SetEvictions(afterGet, k, out.value, <<OpTtl(k)>>, "api", now)]
                        /\ UNCHANGED memo
                   ELSE /\ cache' = [cache EXCEPT !["api"] =
                                SetDict(afterGet, k, out.value, <<OpTtl(k)>>, "api", now)]
                        /\ stats' = [afterGetStats EXCEPT !.evictions = @ +
                                SetEvictions(afterGet, k, out.value, <<OpTtl(k)>>, "api", now)]
                        /\ memo' = [memo EXCEPT ![k] = <<[value |-> out.value, at |-> now]>>]
    /\ UNCHANGED now

CachedCall(k, out) ==
    /\ stats.hits + stats.misses < MaxAccCalls
    /\ LET cached_result == GetResult(cache["api"], k, now)
           afterGet == GetDict(cache["api"], k, now)
           afterGetStats == GetStats(stats, cache["api"], k, now)
           call == [NoCall EXCEPT !.key = k, !.prevOk = WithinWindow(k, now),
                        !.prevValue = IF memo[k] = <<>> THEN None ELSE memo[k][1].value]
       IN  IF IsCacheHit(cached_result)
           THEN /\ lastCall' = [call EXCEPT !.value = cached_result]
                /\ cache' = [cache EXCEPT !["api"] = afterGet]
                /\ stats' = afterGetStats
                /\ UNCHANGED <<fetches, memo>>
           ELSE /\ fetches' = [fetches EXCEPT ![k] = @ + 1]
                /\ lastCall' = [call EXCEPT !.value = out.value, !.raised = out.raises,
                                            !.fetched = TRUE]
                /\ IF out.raises
                   THEN /\ cache' = [cache EXCEPT !["api"] = afterGet]
                        /\ stats' = afterGetStats
                        /\ UNCHANGED memo
                   ELSE /\ cache' = [cache EXCEPT !["api"] =
                                SetDict(afterGet, k, out.value, <<OpTtl(k)>>, "api", now)]
                        /\ stats' = [afterGetStats EXCEPT !.evictions = @ +
                                SetEvictions(afterGet, k, out.value, <<OpTtl(k)>>, "api", now)]
                        /\ memo' = [memo EXCEPT ![k] = <<[value |-> out.value, at |-> now]>>]
    /\ UNCHANGED now

\* ---------------------------------------------------------------- batch run

\* ttl=600 of the quota marker get_game_data writes.
QUOTA_TTL == 600

\* quota_key of get_game_data and check_rate_limit_cache_status, for the one user.
quota_key == "quota_exceeded_user"

\* The cache keys of the wrappers of get_user_data and _configure_user_threads.
user_data_key == "get_user_data"

configure_key == "_configure_user_threads"

\* user_info, the document get_user_data returns.
user_info == "user_info"

\* The cache manager's dicts and statistics, threaded through a handler's calls.
CacheState == [cache |-> cache, stats |-> stats]

\* cache_manager.get(k, r) and cache_manager.set(k, v, ttl=d, cache_type=r) on cs.
CsGet(cs, r, k) ==
    [cache |-> [cs.cache EXCEPT ![r] = GetDict(@, k, now)],
     stats |-> GetStats(cs.stats, cs.cache[r], k, now)]

CsSet(cs, r, k, v, d) ==
    [cache |-> [cs.cache EXCEPT ![r] = SetDict(@, k, v, <<d>>, r, now)],
     stats |-> [cs.stats EXCEPT !.evictions = @ +
                    SetEvictions(cs.cache[r], k, v, <<d>>, r, now)]]

\* What a worker's _process_rom_with_monitoring gives its future: a dict with
\* success True, a dict with success False, or one of the two exceptions it re-raises.
WorkerResults == {"ok", "failed", "RateLimitError", "ForbiddenError"}

\* The values maxthreads takes in the server's answer.
ServerThreads == 0..MaxServerThreads

\* The items whose future is in state s.
InState(s) == {i \in Items : future[i] = s}

\* min(self.config.threads, max_threads)
ClampThreads(configuredThreads, max_threads) == Min(configuredThreads, max_threads)

\* The pool runs a work item on a thread only while fewer than max_workers threads
\* are busy.
CanStartUnbounded(running, max_workers) == running <= max_workers

CanStart(running, max_workers) == running < max_workers

\* What the as_completed loop does with a future's result: a returned dict is
\* counted, RateLimitError halts the batch, ForbiddenError and every other
\* exception are logged.
LoopHandlerForbiddenHalts(result) ==
    CASE result \in {"ok", "failed"} -> "count"
      [] result = "RateLimitError" -> "halt"
      [] result = "ForbiddenError" -> "halt"
      [] OTHER -> "log"

LoopHandlerReraise(result) ==
    CASE result \in {"ok", "failed"} -> "count"
      [] result = "RateLimitError" -> "halt"
      [] result = "ForbiddenError" -> "raise"
      [] OTHER -> "log"

LoopHandlerQuotaReraise(result) ==
    CASE result \in {"ok", "failed"} -> "count"
      [] result = "RateLimitError" -> "raise"
      [] result = "ForbiddenError" -> "log"
      [] OTHER -> "log"

LoopHandler(result) ==
    CASE result \in {"ok", "failed"} -> "count"
      [] result = "RateLimitError" -> "halt"
      [] result = "ForbiddenError" -> "log"
      [] OTHER -> "log"

\* ConfigManager.load_config: the validated thread count of the configuration file.
LoadConfig(c) ==
    /\ bpc = "init"
    /\ configured' = c
    /\ threads' = c
    /\ bpc' = "startup"
    /\ UNCHANGED <<now, cache, stats, serverMax, future, outcome, yielded, completed,
                   quota_exceeded, logged, cancelIdx, pendingAtHalt>>

\* _configure_user_threads when get_user_data returns a document with maxthreads = m:
\* both wrappers miss, get_user_data's result and then the None of
\* _configure_user_threads are stored.
ConfigureThreads(m) ==
    /\ bpc = "startup"
    /\ LET c1 == CsGet(CacheState, "api", configure_key)
           c2 == CsGet(c1, "api", user_data_key)
           c3 == CsSet(c2, "api", user_data_key, user_info, USER_DATA_TTL)
           c4 == CsSet(c3, "api", configure_key, None, USER_DATA_TTL)
       IN  /\ cache' = c4.cache
           /\ stats' = c4.stats
    /\ threads' = ClampThreads(threads, m)
    /\ serverMax' = <<m>>
    /\ bpc' = "menu"
    /\ UNCHANGED <<now, configured, future, outcome, yielded, completed,
                   quota_exceeded, logged, cancelIdx, pendingAtHalt>>

\* _configure_user_threads when get_user_data raises NetworkError or ScraperError
\* (fetched FALSE) or returns a document without user information (fetched TRUE):
\* the handler logs and self.config.threads stays.
ConfigureKeeps(fetched) ==
    /\ bpc = "startup"
    /\ LET c1 == CsGet(CacheState, "api", configure_key)
           c2 == CsGet(c1, "api", user_data_key)
           c3 == IF fetched
                 THEN CsSet(c2, "api", user_data_key, user_info, USER_DATA_TTL)
                 ELSE c2
           c4 == CsSet(c3, "api", configure_key, None, USER_DATA_TTL)
       IN  /\ cache' = c4.cache
           /\ stats' = c4.stats
    /\ bpc' = "menu"
    /\ UNCHANGED <<now, threads, configured, serverMax, future, outcome, yielded,
                   completed, quota_exceeded, logged, cancelIdx, pendingAtHalt>>

\* _configure_user_threads when get_user_data raises ForbiddenError or RateLimitError:
\* ConfigurationError, and the caller exits.
ConfigureAborts ==
    /\ bpc = "startup"
    /\ LET c1 == CsGet(CacheState, "api", configure_key)
           c2 == CsGet(c1, "api", user_data_key)
       IN  /\ cache' = c2.cache
           /\ stats' = c2.stats
    /\ bpc' = "exited"
    /\ UNCHANGED <<now, threads, configured, serverMax, future, outcome, yielded,
                   completed, quota_exceeded, logged, cancelIdx, pendingAtHalt>>

\* _scrape_all_roms up to the construction of the pool: ThreadPoolExecutor raises
\* ValueError for max_workers <= 0, which the outer handler reports as a batch error.
BatchBegin ==
    /\ bpc = "menu"
    /\ bpc' = IF threads <= 0 THEN "error" ELSE "submitting"
    /\ UNCHANGED <<now, cache, stats, threads, configured, serverMax, future, outcome,
                   yielded, completed, quota_exceeded, logged, cancelIdx, pendingAtHalt>>

\* executor.submit for the next rom of roms_to_scrape; after the last one the main
\* thread enters the as_completed loop.
BatchSubmit(i) ==
    /\ bpc = "submitting"
    /\ future[i] = "NONE"
    /\ \A j \in Items : j < i => future[j] # "NONE"
    /\ future' = [future EXCEPT ![i] = "PENDING"]
    /\ bpc' = IF \A j \in Items : j > i => future[j] # "NONE" THEN "draining"
              ELSE "submitting"
    /\ UNCHANGED <<now, cache, stats, threads, configured, serverMax, outcome, yielded,
                   completed, quota_exceeded, logged, cancelIdx, pendingAtHalt>>

\* A pool thread takes the first work item of the queue that was not cancelled and
\* starts _process_rom_with_monitoring; get_game_data first reads the quota marker
\* and raises RateLimitError when it is set.
WorkerStart(i) ==
    /\ bpc \in {"submitting", "draining", "cancelling", "joining", "unwinding"}
    /\ future[i] = "PENDING"
    /\ \A j \in Items : j < i => future[j] # "PENDING"
    /\ CanStart(Cardinality(InState("RUNNING")), threads)
    /\ future' = [future EXCEPT ![i] = "RUNNING"]
    /\ LET c1 == CsGet(CacheState, "memory", quota_key)
       IN  /\ cache' = c1.cache
           /\ stats' = c1.stats
    /\ outcome' = [outcome EXCEPT ![i] =
            IF Truthy(GetResult(cache["memory"], quota_key, now))
            THEN "RateLimitError" ELSE "none"]
    /\ UNCHANGED <<now, threads, configured, serverMax, bpc, yielded, completed,
                   quota_exceeded, logged, cancelIdx, pendingAtHalt>>

\* The worker of item i ends with result r; a RateLimitError raised by the fetch
\* makes get_game_data write the quota marker.
WorkerFinish(i, r) ==
    /\ future[i] = "RUNNING"
    /\ outcome[i] \in {"none", r}
    /\ future' = [future EXCEPT ![i] = "FINISHED"]
    /\ outcome' = [outcome EXCEPT ![i] = r]
    /\ LET c1 == IF outcome[i] = "none" /\ r = "RateLimitError"
                 THEN CsSet(CacheState, "memory", quota_key, "True", QUOTA_TTL)
                 ELSE CacheState
       IN  /\ cache' = c1.cache
           /\ stats' = c1.stats
    /\ UNCHANGED <<now, threads, configured, serverMax, bpc, yielded, completed,
                   quota_exceeded, logged, cancelIdx, pendingAtHalt>>

\* One round of the as_completed loop: the finished future of item i is yielded and
\* its result handled.  On RateLimitError the handler reads the two markers
\* (check_rate_limit_cache_status) and sets quota_exceeded before its cancel loop.
MainYield(i) ==
    /\ bpc = "draining"
    /\ future[i] = "FINISHED"
    /\ i \notin yielded
    /\ yielded' = yielded \cup {i}
    /\ LET h == LoopHandler(outcome[i])
           c1 == CsGet(CacheState, "memory", quota_key)
           c2 == CsGet(c1, "memory", forbidden_key)
       IN  /\ completed' = IF h = "count" THEN completed + 1 ELSE completed
           /\ logged' = IF h \in {"halt", "log"} THEN logged \cup {i} ELSE logged
           /\ quota_exceeded' = (quota_exceeded \/ h = "halt")
           /\ pendingAtHalt' = IF h = "halt" THEN InState("PENDING") ELSE pendingAtHalt
           /\ cache' = IF h = "halt" THEN c2.cache ELSE cache
           /\ stats' = IF h = "halt" THEN c2.stats ELSE stats
           /\ bpc' = CASE h = "halt" -> "cancelling"
                       [] h = "raise" -> "unwinding"
                       [] yielded' = Items -> "joining"
                       [] OTHER -> "draining"
    /\ UNCHANGED <<now, threads, configured, serverMax, future, outcome, cancelIdx>>

\* One round of the cancel loop: remaining_future.cancel() cancels a future that has
\* not started and leaves a running or finished one alone; after the last future
\* the loop breaks.
MainCancel ==
    /\ bpc = "cancelling"
    /\ cancelIdx \in Items
    /\ future' = [future EXCEPT ![cancelIdx] =
                    IF @ = "PENDING" THEN "CANCELLED" ELSE @]
    /\ cancelIdx' = cancelIdx + 1
    /\ bpc' = IF cancelIdx + 1 \in Items THEN "cancelling" ELSE "joining"
    /\ UNCHANGED <<now, cache, stats, threads, configured, serverMax, outcome, yielded,
                   completed, quota_exceeded, logged, pendingAtHalt>>

\* The exit of the with block waits for the pool's threads, which run every work item
\* still queued; then the summary is drawn, or the batch error when an exception
\* left the loop.
MainJoin ==
    /\ bpc \in {"joining", "unwinding"}
    /\ InState("RUNNING") = {}
    /\ InState("PENDING") = {}
    /\ bpc' = IF bpc = "joining" THEN "done" ELSE "error"
    /\ UNCHANGED <<now, cache, stats, threads, configured, serverMax, future, outcome,
                   yielded, completed, quota_exceeded, logged, cancelIdx, pendingAtHalt>>

\* --------------------------------------------------------------- quota marker

\* ttl=3600 of the wrapper of get_game_data is GAME_DATA_TTL; the marker's is QUOTA_TTL.
Users == {"u" \o ToString(i) : i \in 1..NumUsers}

Roms == 1..NumRoms

MaxQuotaClock == QuotaClockStep * MaxQuotaClockSteps

\* quota_key = f"quota_exceeded_{username}"
QuotaKeyShared(username) == "quota_exceeded_"

QuotaKey(username) == "quota_exceeded_" \o username

\* The wrapper's cache key of get_game_data(system_id, rom_path, ..., username, ...).
GameKey(username, rom) == "get_game_data_" \o username \o "_" \o ToString(rom)

\* What the body of get_game_data does once it fetches: it returns the game document
\* (from the lookup or the fallback search), returns the empty lookup result, or the
\* fetch of the lookup or of the fallback search raises.
GameOutcomes ==
    {[raises |-> "None", value |-> "game"], [raises |-> "None", value |-> None],
     [raises |-> "RateLimitError", value |-> None],
     [raises |-> "ForbiddenError", value |-> None],
     [raises |-> "ScraperError", value |-> None]}

NoGame == [user |-> "", rom |-> 0, cached |-> FALSE, raised |-> "None",
           transported |-> FALSE, within |-> FALSE, value |-> None]

\* The last quota failure of username was fetched no longer than QUOTA_TTL before t.
WithinQuotaWindow(username, t) ==
    quotaSeen[username] # <<>> /\ t <= quotaSeen[username][1].at + QUOTA_TTL

\* get_game_data(..., rom, ..., username, ...) through its api_cached wrapper; out is
\* what the fetch does if the call gets that far.
GetGameData(username, rom, out) ==
    /\ gameCalls < MaxQuotaCalls
    /\ gameCalls' = gameCalls + 1
    /\ LET key == GameKey(username, rom)
           cached_result == GetResult(cache["api"], key, now)
           c1 == CsGet(CacheState, "api", key)
           cached_quota_state == GetResult(c1.cache["memory"], QuotaKey(username), now)
           c2 == CsGet(c1, "memory", QuotaKey(username))
           call == [NoGame EXCEPT !.user = username, !.rom = rom,
                                  !.within = WithinQuotaWindow(username, now)]
       IN  IF IsCacheHit(cached_result)
           THEN /\ lastGame' = [call EXCEPT !.cached = TRUE, !.value = cached_result]
                /\ cache' = c1.cache
                /\ stats' = c1.stats
                /\ UNCHANGED quotaSeen
           ELSE IF Truthy(cached_quota_state)
           THEN /\ lastGame' = [call EXCEPT !.raised = "RateLimitError"]
                /\ cache' = c2.cache
                /\ stats' = c2.stats
                /\ UNCHANGED quotaSeen
           ELSE /\ lastGame' = [call EXCEPT !.raised = out.raises, !.value = out.value,
                                            !.transported = TRUE]
                /\ LET c3 == CASE out.raises = "RateLimitError" ->
                                    CsSet(c2, "memory", QuotaKey(username), "True", QUOTA_TTL)
                               [] out.raises = "None" ->
                                    CsSet(c2, "api", key, out.value, GAME_DATA_TTL)
                               [] OTHER -> c2
                   IN  /\ cache' = c3.cache
                       /\ stats' = c3.stats
                /\ quotaSeen' = IF out.raises = "RateLimitError"
                                THEN [quotaSeen EXCEPT ![username] =
                                            <<[at |-> now, rom |-> rom]>>]
                                ELSE quotaSeen
    /\ UNCHANGED now

\* Time passes between the calls of get_game_data.
QuotaElapse ==
    /\ now + QuotaClockStep <= MaxQuotaClock
    /\ now' = now + QuotaClockStep
    /\ UNCHANGED <<cache, stats, quotaSeen, lastGame, gameCalls>>

\* ------------------------------------------------- the store, step by step

\* The workers of the pool call get, set and invalidate on the api region with no
\* lock; under the interpreter lock one dict operation is one step, and a thread
\* switch can fall between any two of them.  The counters' += is taken as one step.
RaceRegion == "api"

IdleOp == [pc |-> "idle", op |-> "none", key |-> "", value |-> None, entry |-> <<>>,
           list |-> <<>>, scanLen |-> 0, result |-> None]

\* A call that has returned result r.
Returned(call, r) == [call EXCEPT !.pc = "idle", !.result = r, !.entry = <<>>,
                                  !.list = <<>>, !.scanLen = 0]

\* except Exception: the error is logged and counted, and the call returns r.
Caught(s) == [s EXCEPT !.errors = @ + 1]

\* q[:n] of Python, for any integer n.
PySlice(q, n) ==
    LET m == IF n < 0 THEN (IF Len(q) + n < 0 THEN 0 ELSE Len(q) + n)
             ELSE IF n > Len(q) THEN Len(q) ELSE n
    IN  SubSeq(q, 1, m)

\* [key for key, entry in d.items() if entry.is_expired()], in dict order.
ExpiredKeys(d, t) ==
    LET x == SelectSeq(d, LAMBDA e : is_expired(e, t))
    IN  [i \in 1..Len(x) |-> x[i].key]

\* The keys of sorted(d.items(), key=timestamp).
SortedKeys(d) ==
    [r \in 1..Len(d) |-> d[CHOOSE i \in 1..Len(d) : SortRank(d, i) = r].key]

\* get: if key not in cache_dict
RaceGetBegin(w, k) ==
    /\ race[w].pc = "idle"
    /\ raceOps < MaxRaceOps
    /\ raceOps' = raceOps + 1
    /\ LET call == [IdleOp EXCEPT !.op = "get", !.key = k]
       IN  IF k \notin DictKeys(cache[RaceRegion])
           THEN /\ race' = [race EXCEPT ![w] = Returned(call, None)]
                /\ stats' = [stats EXCEPT !.misses = @ + 1]
           ELSE /\ race' = [race EXCEPT ![w] = [call EXCEPT !.pc = "g_index"]]
                /\ UNCHANGED stats
    /\ UNCHANGED <<now, cache>>

\* get: entry = cache_dict[key], KeyError when the key has gone
RaceGetIndex(w) ==
    /\ race[w].pc = "g_index"
    /\ IF race[w].key \notin DictKeys(cache[RaceRegion])
       THEN /\ race' = [race EXCEPT ![w] = Returned(@, None)]
            /\ stats' = Caught(stats)
       ELSE /\ race' = [race EXCEPT ![w] =
                    [@ EXCEPT !.pc = "g_expired",
                              !.entry = <<DictGet(cache[RaceRegion], race[w].key)>>]]
            /\ UNCHANGED stats
    /\ UNCHANGED <<now, cache, raceOps>>

\* get: if entry.is_expired(), else the hit
RaceGetExpired(w) ==
    /\ race[w].pc = "g_expired"
    /\ IF is_expired(race[w].entry[1], now)
       THEN /\ race' = [race EXCEPT ![w] = [@ EXCEPT !.pc = "g_del"]]
            /\ UNCHANGED stats
       ELSE /\ race' = [race EXCEPT ![w] = Returned(@, race[w].entry[1].data)]
            /\ stats' = [stats EXCEPT !.hits = @ + 1]
    /\ UNCHANGED <<now, cache, raceOps>>

\* get: del cache_dict[key], KeyError when the key has gone
RaceGetDel(w) ==
    /\ race[w].pc = "g_del"
    /\ IF race[w].key \notin DictKeys(cache[RaceRegion])
       THEN /\ stats' = Caught(stats)
            /\ UNCHANGED cache
       ELSE /\ cache' = [cache EXCEPT ![RaceRegion] = DictDel(@, race[w].key)]
            /\ stats' = [stats EXCEPT !.misses = @ + 1, !.evictions = @ + 1]
    /\ race' = [race EXCEPT ![w] = Returned(@, None)]
    /\ UNCHANGED <<now, raceOps>>

\* set: cache_dict[key] = entry
RaceSetBegin(w, k, v) ==
    /\ race[w].pc = "idle"
    /\ raceOps < MaxRaceOps
    /\ raceOps' = raceOps + 1
    /\ cache' = [cache EXCEPT ![RaceRegion] =
                    SetInserted(@, k, v, <<ClockStep>>, RaceRegion, now)]
    /\ race' = [race EXCEPT ![w] =
                    [IdleOp EXCEPT !.op = "set", !.key = k, !.value = v, !.pc = "s_iter"]]
    /\ UNCHANGED <<now, stats>>

\* _cleanup_expired_entries: the iteration over cache_dict.items() begins
RaceScanBegin(w) ==
    /\ race[w].pc = "s_iter"
    /\ race' = [race EXCEPT ![w] =
                    [@ EXCEPT !.pc = "s_scan", !.scanLen = Len(cache[RaceRegion])]]
    /\ UNCHANGED <<now, cache, stats, raceOps>>

\* _cleanup_expired_entries: the iteration ends, with RuntimeError when the dict
\* changed size during it
RaceScanEnd(w) ==
    /\ race[w].pc = "s_scan"
    /\ IF Len(cache[RaceRegion]) # race[w].scanLen
       THEN /\ race' = [race EXCEPT ![w] = Returned(@, "error")]
            /\ stats' = Caught(stats)
       ELSE /\ race' = [race EXCEPT ![w] =
                    [@ EXCEPT !.list = ExpiredKeys(cache[RaceRegion], now),
                              !.pc = IF ExpiredKeys(cache[RaceRegion], now) = <<>>
                                     THEN "s_len" ELSE "s_purge"]]
            /\ UNCHANGED stats
    /\ UNCHANGED <<now, cache, raceOps>>

\* _cleanup_expired_entries and _enforce_cache_size_limit: del cache_dict[key] for
\* the next key of the list, KeyError when the key has gone
RaceDelNext(w) ==
    /\ race[w].pc \in {"s_purge", "s_evict"}
    /\ LET k == Head(race[w].list)
           rest == Tail(race[w].list)
       IN  IF k \notin DictKeys(cache[RaceRegion])
           THEN /\ race' = [race EXCEPT ![w] = Returned(@, "error")]
                /\ stats' = Caught(stats)
                /\ UNCHANGED cache
           ELSE /\ cache' = [cache EXCEPT ![RaceRegion] = DictDel(@, k)]
                /\ stats' = [stats EXCEPT !.evictions = @ + 1]
                /\ race' = [race EXCEPT ![w] =
                        IF rest # <<>> THEN [@ EXCEPT !.list = rest]
                        ELSE IF race[w].pc = "s_purge"
                             THEN [@ EXCEPT !.list = <<>>, !.pc = "s_len"]
                             ELSE Returned(@, None)]
    /\ UNCHANGED <<now, raceOps>>

\* _enforce_cache_size_limit: if len(cache_dict) <= max_size: return
RaceLen(w) ==
    /\ race[w].pc = "s_len"
    /\ race' = [race EXCEPT ![w] =
                    IF Len(cache[RaceRegion]) <= _get_max_size(RaceRegion)
                    THEN Returned(@, None) ELSE [@ EXCEPT !.pc = "s_sort"]]
    /\ UNCHANGED <<now, cache, stats, raceOps>>

\* _enforce_cache_size_limit: sorted_entries = sorted(cache_dict.items(), ...)
RaceSort(w) ==
    /\ race[w].pc = "s_sort"
    /\ race' = [race EXCEPT ![w] =
                    [@ EXCEPT !.pc = "s_count", !.list = SortedKeys(cache[RaceRegion])]]
    /\ UNCHANGED <<now, cache, stats, raceOps>>

\* _enforce_cache_size_limit: entries_to_remove = len(cache_dict) - max_size, and the
\* slice sorted_entries[:entries_to_remove]
RaceCount(w) ==
    /\ race[w].pc = "s_count"
    /\ LET victims == PySlice(race[w].list,
                              Len(cache[RaceRegion]) - _get_max_size(RaceRegion))
       IN  race' = [race EXCEPT ![w] =
                    IF victims = <<>> THEN Returned(@, None)
                    ELSE [@ EXCEPT !.pc = "s_evict", !.list = victims]]
    /\ UNCHANGED <<now, cache, stats, raceOps>>

\* invalidate: if key in cache_dict
RaceInvalidateBegin(w, k) ==
    /\ race[w].pc = "idle"
    /\ raceOps < MaxRaceOps
    /\ raceOps' = raceOps + 1
    /\ LET call == [IdleOp EXCEPT !.op = "invalidate", !.key = k]
       IN  race' = [race EXCEPT ![w] =
                    IF k \in DictKeys(cache[RaceRegion])
                    THEN [call EXCEPT !.pc = "i_del"] ELSE Returned(call, "False")]
    /\ UNCHANGED <<now, cache, stats>>

\* invalidate: del cache_dict[key], KeyError when the key has gone
RaceInvalidateDel(w) ==
    /\ race[w].pc = "i_del"
    /\ IF race[w].key \notin DictKeys(cache[RaceRegion])
       THEN /\ race' = [race EXCEPT ![w] = Returned(@, "False")]
            /\ stats' = Caught(stats)
            /\ UNCHANGED cache
       ELSE /\ race' = [race EXCEPT ![w] = Returned(@, "True")]
            /\ cache' = [cache EXCEPT ![RaceRegion] = DictDel(@, race[w].key)]
            /\ UNCHANGED stats
    /\ UNCHANGED <<now, raceOps>>

\* --------------------------------------- the cached operation, concurrently

\* The workers call one cached operation with equal arguments at the same time:
\* the wrapper's get, the wrapped function and the wrapper's set are three steps of a
\* call.  MemoKey is the call's cache key.
MemoKey == "k1"

IdleMemo == [pc |-> "idle", value |-> None, raised |-> FALSE, fetched |-> FALSE,
             late |-> FALSE, done |-> FALSE]

\* No call is under way, two calls that missed together have both written, and the
\* last write is within its TTL at time t.
AfterTwoWrites(t) ==
    /\ \A w \in Workers : memoCall[w].pc = "idle"
    /\ memoLog.together
    /\ Len(memoLog.writes) >= 2
    /\ t < memoLog.at + OpTtl(MemoKey)

\* wrapper: cached_result = cache_manager.get(cache_key, cache_type), and the return
\* of a hit
MemoGet(w) ==
    /\ memoCall[w].pc = "idle"
    /\ memoCalls < MaxMemoCalls
    /\ memoCalls' = memoCalls + 1
    /\ LET cached_result == GetResult(cache["api"], MemoKey, now)
           c1 == CsGet(CacheState, "api", MemoKey)
           call == [IdleMemo EXCEPT !.late = AfterTwoWrites(now)]
       IN  /\ cache' = c1.cache
           /\ stats' = c1.stats
           /\ IF IsCacheHit(cached_result)
              THEN /\ memoCall' = [memoCall EXCEPT ![w] =
                            [call EXCEPT !.value = cached_result, !.done = TRUE]]
                   /\ UNCHANGED memoLog
              ELSE /\ memoCall' = [memoCall EXCEPT ![w] = [call EXCEPT !.pc = "fetching"]]
                   /\ memoLog' = [memoLog EXCEPT !.together =
                            @ \/ \E x \in Workers \ {w} : memoCall[x].pc \in {"fetching", "storing"}]
    /\ UNCHANGED now

\* wrapper: result = func(*args, **kwargs), and the re-raise of what it raises
MemoFetch(w, out) ==
    /\ memoCall[w].pc = "fetching"
    /\ memoCall' = [memoCall EXCEPT ![w] =
            IF out.raises
            THEN [@ EXCEPT !.pc = "idle", !.fetched = TRUE, !.raised = TRUE,
                           !.value = out.value, !.done = TRUE]
            ELSE [@ EXCEPT !.pc = "storing", !.fetched = TRUE, !.value = out.value]]
    /\ UNCHANGED <<now, cache, stats, memoLog, memoCalls>>

\* wrapper: cache_manager.set(cache_key, result, ttl, cache_type); return result
MemoSet(w) ==
    /\ memoCall[w].pc = "storing"
    /\ LET c1 == CsSet(CacheState, "api", MemoKey, memoCall[w].value, OpTtl(MemoKey))
       IN  /\ cache' = c1.cache
           /\ stats' = c1.stats
    /\ memoLog' = [memoLog EXCEPT !.writes = Append(@, memoCall[w].value), !.at = now]
    /\ memoCall' = [memoCall EXCEPT ![w] = [@ EXCEPT !.pc = "idle", !.done = TRUE]]
    /\ UNCHANGED <<now, memoCalls>>

\* ------------------------------------------------------------- persistence

\* pickle.dump of the dict of entries: each item is written as its key and the
\* fields of its CacheEntry in the order of the dataclass; pickle.load reads the
\* items back in the same order.
PickleDump(d) ==
    [i \in 1..Len(d) |-> <<d[i].key, <<d[i].data, d[i].timestamp, d[i].ttl, d[i].key>>>>]

PickleLoad(f) ==
    [i \in 1..Len(f) |-> [item_key |-> f[i][1],
                          entry |-> [data |-> f[i][2][1], timestamp |-> f[i][2][2],
                                     ttl |-> f[i][2][3], key |-> f[i][2][4]]]]

\* save_to_disk: valid_entries, the entries not expired at time t, as the file.
SaveFile(d, t) == PickleDump(SelectSeq(d, LAMBDA e : ~is_expired(e, t)))

\* load_from_disk into an empty dict at time t: every loaded entry that is not
\* expired is stored under its key.
RECURSIVE LoadItemsRestamped(_, _, _)
LoadItemsRestamped(d, items, t) ==
    IF items = <<>> THEN d
    ELSE LoadItemsRestamped(
            IF is_expired(Head(items).entry, t) THEN d
            ELSE DictSet(d, Head(items).item_key,
                         [Head(items).entry EXCEPT !.timestamp = t]),
            Tail(items), t)

RECURSIVE LoadItems(_, _, _)
LoadItems(d, items, t) ==
    IF items = <<>> THEN d
    ELSE LoadItems(
            IF is_expired(Head(items).entry, t) THEN d
            ELSE DictSet(d, Head(items).item_key, Head(items).entry),
            Tail(items), t)

\* CacheManager.save_to_disk(cache_type)
SaveToDisk(r) ==
    /\ fresh = <<>>
    /\ disk' = <<[region |-> r, file |-> SaveFile(cache[r], now), orig |-> cache[r],
                  at |-> now]>>
    /\ disk' # disk
    /\ UNCHANGED <<now, cache, stats, fresh>>

\* CacheManager.load_from_disk(cache_type) on a store that was just constructed
LoadFromDisk ==
    /\ disk # <<>>
    /\ fresh = <<>>
    /\ fresh' = <<[region |-> disk[1].region,
                   dict |-> LoadItems(<<>>, PickleLoad(disk[1].file), now),
                   at |-> now]>>
    /\ UNCHANGED <<now, cache, stats, disk>>

\* CacheManager.load_from_disk(cache_type) on the store in use: every loaded entry
\* that is not expired is stored under its key in the region's dict, next to what
\* the dict holds; nothing else is done to the dict.
LoadFromDiskInPlace(r) ==
    /\ disk # <<>>
    /\ disk[1].region = r
    /\ cache' = [cache EXCEPT ![r] = LoadItems(@, PickleLoad(disk[1].file), now)]
    /\ UNCHANGED <<now, stats, disk, fresh>>

\* ----------------------------------------------------------- the cache key

\* Python values that are passed as arguments: integers, a string, a tuple and a
\* list.
PyValues ==
    {[t |-> "int", v |-> <<1>>], [t |-> "int", v |-> <<2>>], [t |-> "str", v |-> <<"1">>],
     [t |-> "tuple", v |-> <<1, 2>>], [t |-> "list", v |-> <<1, 2>>]}

\* A call: the name of the wrapped function, its positional arguments, and its
\* named arguments in the order the caller wrote them.
KwargLists ==
    {<<>>,
     <<[name |-> "a", value |-> [t |-> "int", v |-> <<1>>]]>>,
     <<[name |-> "a", value |-> [t |-> "int", v |-> <<2>>]]>>,
     <<[name |-> "a", value |-> [t |-> "int", v |-> <<1>>]],
       [name |-> "b", value |-> [t |-> "int", v |-> <<2>>]]>>,
     <<[name |-> "b", value |-> [t |-> "int", v |-> <<2>>]],
       [name |-> "a", value |-> [t |-> "int", v |-> <<1>>]]>>}

KeyCalls ==
    [name : {"op", "op2"}, args : {<<>>} \cup {<<x>> : x \in PyValues},
     kwargs : KwargLists]

\* The signed integers hash() returns, HashBits wide.
HashRange == -(2 ^ (HashBits - 1)) .. (2 ^ (HashBits - 1) - 1)

\* ", ".join(q)
RECURSIVE Join(_)
Join(q) ==
    IF q = <<>> THEN ""
    ELSE IF Len(q) = 1 THEN q[1]
    ELSE q[1] \o ", " \o Join(Tail(q))

\* json.dumps of a value: a tuple is written as a list is.
JsonValue(x) ==
    CASE x.t = "int" -> ToString(x.v[1])
      [] x.t = "str" -> "\"" \o x.v[1] \o "\""
      [] OTHER -> "[" \o Join([i \in 1..Len(x.v) |-> ToString(x.v[i])]) \o "]"

\* The order of the argument names as strings.
NameOrder(n) == CASE n = "a" -> 1 [] n = "b" -> 2 [] OTHER -> 3

\* sorted(kwargs.items()): the named arguments in the order of their names.
SortedItems(kwargs) ==
    LET rank(i) == Cardinality({j \in 1..Len(kwargs) :
                        NameOrder(kwargs[j].name) < NameOrder(kwargs[i].name)}) + 1
    IN  [r \in 1..Len(kwargs) |-> kwargs[CHOOSE i \in 1..Len(kwargs) : rank(i) = r]]

\* key_string = json.dumps({"args": args, "kwargs": sorted(kwargs.items()) if kwargs
\* else {}}, sort_keys=True, default=str), for args = (func.__name__, *args)
KeyString(call) ==
    "{\"args\": [" \o
    Join(<<"\"" \o call.name \o "\"">> \o [i \in 1..Len(call.args) |-> JsonValue(call.args[i])])
    \o "], \"kwargs\": " \o
    (IF call.kwargs = <<>> THEN "{}"
     ELSE "[" \o Join([i \in 1..Len(call.kwargs) |->
                "[\"" \o SortedItems(call.kwargs)[i].name \o "\", "
                \o JsonValue(SortedItems(call.kwargs)[i].value) \o "]"]) \o "]")
    \o "}"

\* str(abs(hash(key_string))), for the value h that hash gives key_string
CacheKeyOf(h) == ToString(IF h < 0 THEN -h ELSE h)

NoKeys == [set |-> FALSE, a |-> [name |-> "", args |-> <<>>, kwargs |-> <<>>],
           b |-> [name |-> "", args |-> <<>>, kwargs |-> <<>>],
           sa |-> "", sb |-> "", ka |-> "", kb |-> ""]

\* _generate_cache_key for two calls in one process; ha and hb are what hash gives
\* their key strings, the same value for the same string.
GenerateCacheKeys(a, b, ha, hb) ==
    /\ KeyString(a) = KeyString(b) => ha = hb
    /\ keyPair' = [set |-> TRUE, a |-> a, b |-> b,
                   sa |-> KeyString(a), sb |-> KeyString(b),
                   ka |-> CacheKeyOf(ha), kb |-> CacheKeyOf(hb)]

\* ------------------------------------------------------------- fetch_data

\* No transport call of the worker's call of get has ended yet.
NoOutcome == [t |-> "none", code |-> 0]

\* The bodies fetch_data can be handed by get, by what its checks make of them: a
\* JSON document, a blank body, a body with an error indicator and a quota
\* indicator, one with an error indicator and the word forbidden, one with an error
\* indicator only, and a body that is not JSON.
Documents == {"ok", "blank", "quota_text", "forbidden_text", "error_text", "invalid_json"}

\* What fetch_data does with the body get returned.
ParseBody(doc) ==
    IF doc = "ok" THEN "data"
    ELSE IF doc = "quota_text" THEN "RateLimitError"
    ELSE IF doc = "forbidden_text" THEN "ForbiddenError"
    ELSE "ScraperError"

\* fetch_data(url) once its call of get has ended: an error of get is raised again as
\* it is, a body is checked and parsed.
FetchDataEnd(w, doc) ==
    /\ fetch[w].pc = "idle"
    /\ fetch[w].result # None
    /\ fdata[w] = None
    /\ fdata' = [fdata EXCEPT ![w] =
            IF fetch[w].result = "content" THEN ParseBody(doc) ELSE fetch[w].result]
    /\ UNCHANGED <<now, cache, stats, fetch, forbiddenSeen, began, lastOut>>

\* ---------------------------------------------------- the counters, racing

\* self._stats[name] += 1 is a load of the counter, an addition and a store; nothing
\* guards it, so another thread can run between the load and the store.
IdleCount == [pc |-> "idle", name |-> "", loaded |-> 0]

CounterNames == {"hits", "misses", "evictions", "errors"}

\* get of a key that is not in the region: self._stats["misses"] is loaded
GetMissLoad(w, k) ==
    /\ counting[w].pc = "idle"
    /\ countOps < MaxCountOps
    /\ k \notin DictKeys(cache[RaceRegion])
    /\ countOps' = countOps + 1
    /\ counting' = [counting EXCEPT ![w] =
                        [pc |-> "loaded", name |-> "misses", loaded |-> stats.misses]]
    /\ UNCHANGED <<now, cache, stats, seen>>

\* the loaded value plus one is stored, and get returns None
GetMissStore(w) ==
    /\ counting[w].pc = "loaded"
    /\ stats' = [stats EXCEPT ![counting[w].name] = counting[w].loaded + 1]
    /\ counting' = [counting EXCEPT ![w] = IdleCount]
    /\ UNCHANGED <<now, cache, seen, countOps>>

\* get_stats(): the counters are copied into the dict it returns
GetStatsObserve ==
    /\ seen' = stats
    /\ UNCHANGED <<now, cache, stats, counting, countOps>>

\* ------------------------------------------------ clearing a quota marker

NoClear == [user |-> "", result |-> None]

\* clear_rate_limit_cache(username).  CacheManager has no attribute delete, so the
\* call cache_manager.delete(quota_key, "memory") raises AttributeError.
ClearRateLimitCache(username) ==
    /\ clears < MaxClearCalls
    /\ clears' = clears + 1
    /\ LET cached_state == GetResult(cache["memory"], QuotaKey(username), now)
           c1 == CsGet(CacheState, "memory", QuotaKey(username))
       IN  /\ cache' = c1.cache
           /\ stats' = c1.stats
           /\ lastClear' = [user |-> username,
                            result |-> IF Truthy(cached_state) THEN "AttributeError"
                                       ELSE "False"]
    /\ UNCHANGED <<now, quotaSeen, lastGame, gameCalls>>

\* ------------------------------------------------------- one work item

NoItem == [done |-> FALSE, lookup |-> "", box |-> NoOutcome, preview |-> NoOutcome,
           saved |-> FALSE, result |-> ""]

\* What get_game_data does for the item: it returns the game document or None, or
\* raises.
LookupOutcomes == {"game", "None", "RateLimitError", "ForbiddenError", "ScraperError"}

\* fetch_box and fetch_preview over get(media_url), for what the last attempt of get
\* did: every ScraperError, whatever its subclass, is raised again as a new
\* ScraperError.
FetchMedia(o) == IF Classify(o).exc = "content" THEN "content" ELSE "ScraperError"

\* _scrape_rom_media with box and preview enabled: the lookup, then the box, then
\* the preview; the first exception ends it.
ScrapeRomMedia(lookup, ob, op) ==
    IF lookup \in {"RateLimitError", "ForbiddenError", "ScraperError"} THEN lookup
    ELSE IF lookup = "None" THEN "nothing"
    ELSE IF FetchMedia(ob) # "content" THEN FetchMedia(ob)
    ELSE IF FetchMedia(op) # "content" THEN FetchMedia(op)
    ELSE "media"

\* _process_rom: the media are saved; _save_file_to_disk raises MediaProcessingError.
ProcessRom(lookup, ob, op, saveOk) ==
    LET m == ScrapeRomMedia(lookup, ob, op)
    IN  IF m = "nothing" THEN "ok"
        ELSE IF m = "media" THEN (IF saveOk THEN "ok" ELSE "MediaProcessingError")
        ELSE m

\* _process_rom_with_monitoring: ForbiddenError and RateLimitError are raised again,
\* every other exception becomes a dict with success False.
ProcessRomWithMonitoring(lookup, ob, op, saveOk) ==
    LET p == ProcessRom(lookup, ob, op, saveOk)
    IN  IF p \in {"ok", "RateLimitError", "ForbiddenError"} THEN p ELSE "failed"

\* A worker processes the item.
ProcessItem(lookup, ob, op, saveOk) ==
    /\ item' = [done |-> TRUE, lookup |-> lookup, box |-> ob, preview |-> op,
                saved |-> saveOk,
                result |-> ProcessRomWithMonitoring(lookup, ob, op, saveOk)]

\* ------------------------------------------------------------ the ROM screen

\* DEFAULT_MAX_ELEMENTS and LARGE_NAVIGATION_STEP, the steps of L1/R1 and of L2/R2.
max_elem == 11

LARGE_NAVIGATION_STEP == 100

Max(a, b) == IF a > b THEN a ELSE b

\* The application before a system is selected: the emulators window, no cached
\* RomsData, roms_selected_position 0.  show is config.show_scraped_roms, missing the
\* number of ROMs of the system that lack a medium on disk, cached the length of
\* roms_to_scrape of cached_roms_data, pick the last ROM picked by index.
NoScreen == [window |-> "emulators", started |-> FALSE, show |-> FALSE, missing |-> 0,
             cached |-> <<>>, roms_selected_position |-> 0, pick |-> <<>>]

\* len(roms_to_scrape) of _prepare_roms_data: the whole list with show_scraped_roms,
\* else the ROMs missing a medium; <<>> stands for the None it returns when that
\* list is empty and show_scraped_roms is off.
PrepareRomsData(s) ==
    IF s.show THEN <<NumListed>>
    ELSE IF s.missing = 0 THEN <<>> ELSE <<s.missing>>

\* roms_data of load_roms: the cached RomsData when there is one, else a new one.
RomsDataOf(s) == IF s.cached # <<>> THEN s.cached ELSE PrepareRomsData(s)

\* _exit_roms_menu
ExitRomsMenu(s) == [s EXCEPT !.window = "emulators", !.roms_selected_position = 0]

\* _select_system followed by _handle_pending_transition.  The first selection fixes
\* the configuration and what is on disk.
SelectSystem(show, m) ==
    /\ screen.window = "emulators"
    /\ screen.started => (show = screen.show /\ m = screen.missing)
    /\ LET s == [screen EXCEPT !.started = TRUE, !.show = show, !.missing = m]
           roms_data == PrepareRomsData(s)
       IN  screen' = IF roms_data = <<>> THEN s
                     ELSE [s EXCEPT !.window = "roms", !.cached = roms_data,
                                    !.roms_selected_position = 0]

\* load_roms when no RomsData can be prepared: the ROM menu is left.
LoadRomsNoData ==
    /\ screen.window = "roms"
    /\ RomsDataOf(screen) = <<>>
    /\ screen' = ExitRomsMenu(screen)

\* load_roms with the B key.
RomsBack ==
    /\ screen.window = "roms"
    /\ RomsDataOf(screen) # <<>>
    /\ screen' = ExitRomsMenu([screen EXCEPT !.cached = RomsDataOf(screen)])

\* load_roms with the DY key, value d.
RomsNavigate(d) ==
    /\ screen.window = "roms"
    /\ RomsDataOf(screen) # <<>>
    /\ LET n == RomsDataOf(screen)[1]
           pos == screen.roms_selected_position
       IN  screen' = [screen EXCEPT
                !.cached = <<n>>,
                !.roms_selected_position =
                    IF d = 1 /\ pos < n - 1 THEN pos + 1
                    ELSE IF d = -1 /\ pos > 0 THEN pos - 1
                    ELSE pos]

\* _handle_roms_page_navigation(max_items, step), the L1, R1, L2 and R2 keys.
RomsPageNavigation(step) ==
    /\ screen.window = "roms"
    /\ RomsDataOf(screen) # <<>>
    /\ LET max_items == RomsDataOf(screen)[1]
           pos == screen.roms_selected_position
       IN  screen' = [screen EXCEPT
                !.cached = <<max_items>>,
                !.roms_selected_position =
                    IF step > 0 /\ pos < max_items - 1 THEN Min(max_items - 1, pos + step)
                    ELSE IF step < 0 /\ pos > 0 THEN Max(0, pos + step)
                    ELSE pos]

\* The screen after roms_to_scrape[roms_selected_position] was evaluated for a list
\* of n ROMs: the pick is recorded; an index out of range raises IndexError, which
\* the handler of load_roms answers by going back to the emulators window.
Picked(s, n, kind) ==
    LET p == [s EXCEPT !.cached = <<n>>,
                       !.pick = <<[pos |-> s.roms_selected_position, len |-> n,
                                   kind |-> kind]>>]
    IN  IF s.roms_selected_position < n THEN p
        ELSE [p EXCEPT !.window = "emulators"]

\* _scrape_single_rom, the A key: res is "raised" when _process_rom raises, "saved"
\* when it returns and the ROM now has its media, "partial" when it returns and
\* the ROM still lacks one.  After a return the cached RomsData is cleared.
ScrapeSingleRom(res) ==
    /\ screen.window = "roms"
    /\ RomsDataOf(screen) # <<>>
    /\ res = "saved" => screen.missing > 0
    /\ LET n == RomsDataOf(screen)[1]
           p == Picked(screen, n, "scrape")
       IN  screen' = IF screen.roms_selected_position >= n \/ res = "raised" THEN p
                     ELSE [p EXCEPT !.cached = <<>>,
                                    !.missing = IF res = "saved" THEN @ - 1 ELSE @]

\* _delete_single_rom_media, the X key: the media of the picked ROM are deleted and
\* the cached RomsData is cleared; had is whether the ROM had all its media.
DeleteSingleRomMedia(had) ==
    /\ screen.window = "roms"
    /\ RomsDataOf(screen) # <<>>
    /\ had => (screen.show /\ screen.missing < NumListed)
    /\ LET n == RomsDataOf(screen)[1]
           p == Picked(screen, n, "delete")
       IN  screen' = IF screen.roms_selected_position >= n THEN p
                     ELSE [p EXCEPT !.cached = <<>>,
                                    !.missing = IF had THEN @ + 1 ELSE @]

\* _scrape_all_roms, the START key: c work items returned and g of them left their
\* ROM with all its media; the cached RomsData is cleared when c > 0.
ScrapeAllRoms(c, g) ==
    /\ screen.window = "roms"
    /\ RomsDataOf(screen) # <<>>
    /\ c <= RomsDataOf(screen)[1]
    /\ g <= Min(c, screen.missing)
    /\ screen' = [screen EXCEPT !.cached = IF c > 0 THEN <<>> ELSE RomsDataOf(screen),
                               !.missing = @ - g]

NoSet == [region |-> "memory", key |-> "", ttl |-> <<>>]

NoRet == [op |-> "none", region |-> "memory", key |-> "", value |-> None]

\* CacheManager.get(key, cache_type)
Get(r, k) ==
    /\ ops < MaxOps
    /\ ret' = [op |-> "get", region |-> r, key |-> k,
               value |-> GetResult(cache[r], k, now)]
    /\ cache' = [cache EXCEPT ![r] = GetDict(cache[r], k, now)]
    /\ stats' = GetStats(stats, cache[r], k, now)
    /\ ops' = ops + 1
    /\ UNCHANGED <<now, evicted>>

\* CacheManager.set(key, value, ttl, cache_type)
Set(r, k, v, ttl) ==
    /\ ops < MaxOps
    /\ cache' = [cache EXCEPT ![r] = SetDict(cache[r], k, v, ttl, r, now)]
    /\ stats' = [stats EXCEPT !.evictions = @ + SetEvictions(cache[r], k, v, ttl, r, now)]
    /\ evicted' = SetSizeEvicted(cache[r], k, v, ttl, r, now)
    /\ ret' = [op |-> "set", region |-> r, key |-> k, value |-> None]
    /\ ops' = ops + 1
    /\ UNCHANGED now

\* An invalidate that answers True only for an entry get would have served.
InvalidateServedOnly(r, k) ==
    /\ ops < MaxOps
    /\ cache' = [cache EXCEPT ![r] = DictDel(cache[r], k)]
    /\ ret' = [op |-> "invalidate", region |-> r, key |-> k,
               value |-> IF GetResult(cache[r], k, now) # None THEN "True" ELSE "False"]
    /\ ops' = ops + 1
    /\ UNCHANGED <<now, stats, evicted>>

\* CacheManager.invalidate(key, cache_type)
Invalidate(r, k) ==
    /\ ops < MaxOps
    /\ cache' = [cache EXCEPT ![r] = DictDel(cache[r], k)]
    /\ ret' = [op |-> "invalidate", region |-> r, key |-> k,
               value |-> IF k \in DictKeys(cache[r]) THEN "True" ELSE "False"]
    /\ ops' = ops + 1
    /\ UNCHANGED <<now, stats, evicted>>

\* A clear that empties every region whatever its argument.
ClearEverything(r) ==
    /\ ops < MaxOps
    /\ cache' = [x \in Regions |-> <<>>]
    /\ ret' = [op |-> "clear", region |-> r, key |-> "", value |-> None]
    /\ ops' = ops + 1
    /\ UNCHANGED <<now, stats, evicted>>

\* CacheManager.clear(cache_type), and CacheManager.clear() for cache_type None.
Clear(r) ==
    /\ ops < MaxOps
    /\ cache' = IF r = None THEN [x \in Regions |-> <<>>]
                ELSE [cache EXCEPT ![r] = <<>>]
    /\ ret' = [op |-> "clear", region |-> r, key |-> "", value |-> None]
    /\ ops' = ops + 1
    /\ UNCHANGED <<now, stats, evicted>>

\* Time passes.
Elapse ==
    /\ now + ClockStep <= MaxClock
    /\ now' = now + ClockStep
    /\ UNCHANGED <<cache, stats, ret, evicted, ops>>

Init ==
    /\ now = 0
    /\ cache = [r \in Regions |-> <<>>]
    /\ stats = [hits |-> 0, misses |-> 0, evictions |-> 0, errors |-> 0]
    /\ ret = NoRet
    /\ evicted = {}
    /\ ops = 0
    /\ fetch = [w \in Workers |-> IdleCall]
    /\ forbiddenSeen = <<>>
    /\ began = 0
    /\ fetches = [k \in Keys |-> 0]
    /\ memo = [k \in Keys |-> <<>>]
    /\ lastCall = NoCall
    /\ configured = 0
    /\ threads = 0
    /\ serverMax = <<>>
    /\ bpc = "init"
    /\ future = [i \in Items |-> "NONE"]
    /\ outcome = [i \in Items |-> "none"]
    /\ yielded = {}
    /\ completed = 0
    /\ quota_exceeded = FALSE
    /\ logged = {}
    /\ cancelIdx = 1
    /\ pendingAtHalt = {}
    /\ quotaSeen = [u \in Users |-> <<>>]
    /\ lastGame = NoGame
    /\ gameCalls = 0
    /\ race = [w \in Workers |-> IdleOp]
    /\ raceOps = 0
    /\ memoCall = [w \in Workers |-> IdleMemo]
    /\ memoLog = [writes |-> <<>>, at |-> 0, together |-> FALSE]
    /\ memoCalls = 0
    /\ disk = <<>>
    /\ fresh = <<>>
    /\ keyPair = NoKeys
    /\ lastOut = [w \in Workers |-> NoOutcome]
    /\ fdata = [w \in Workers |-> None]
    /\ counting = [w \in Workers |-> IdleCount]
    /\ seen = [hits |-> 0, misses |-> 0, evictions |-> 0, errors |-> 0]
    /\ countOps = 0
    /\ lastClear = NoClear
    /\ clears = 0
    /\ item = NoItem
    /\ lastSet = NoSet
    /\ screen = NoScreen

\* The cache store, called directly.
CacheGet ==
    /\ \E r \in Regions, k \in Keys : Get(r, k)
    /\ UNCHANGED <<fetchVars, accVars, batchVars, extVars>>

CacheSet ==
    /\ \E r \in Regions, k \in Keys, v \in Values, ttl \in TtlArgs : Set(r, k, v, ttl)
    /\ UNCHANGED <<fetchVars, accVars, batchVars, extVars>>

CacheInvalidate ==
    /\ \E r \in Regions, k \in Keys : Invalidate(r, k)
    /\ UNCHANGED <<fetchVars, accVars, batchVars, extVars>>

CacheClear ==
    /\ \E r \in Regions \cup {None} : Clear(r)
    /\ UNCHANGED <<fetchVars, accVars, batchVars, extVars>>

Tick ==
    /\ Elapse
    /\ UNCHANGED <<fetchVars, accVars, batchVars, extVars>>

NextCache ==
    \/ CacheGet
    \/ CacheSet
    \/ CacheInvalidate
    \/ CacheClear
    \/ Tick

SpecCache == Init /\ [][NextCache]_vars

\* scraper.get, called by the workers.
FetchBegin ==
    /\ \E w \in Workers, n \in RetryArgs : GetBegin(w, n)
    /\ UNCHANGED <<cacheOpVars, accVars, batchVars, extVars>>

FetchRequest ==
    /\ \E w \in Workers : GetRequest(w)
    /\ UNCHANGED <<cacheOpVars, accVars, batchVars, extVars>>

FetchResponse ==
    /\ \E w \in Workers, o \in TransportOutcomes : GetResponse(w, o)
    /\ UNCHANGED <<cacheOpVars, accVars, batchVars, extVars>>

FetchSleep ==
    /\ \E w \in Workers : GetSleep(w)
    /\ UNCHANGED <<cacheOpVars, accVars, batchVars, extVars>>

NextFetch ==
    \/ FetchBegin
    \/ FetchRequest
    \/ FetchResponse
    \/ FetchSleep
    \/ Tick

SpecFetch == Init /\ [][NextFetch]_vars

\* The cached operations, called one after the other.
AccessorCall ==
    /\ \E k \in Keys, out \in FuncOutcomes : CachedCall(k, out)
    /\ UNCHANGED <<cacheOpVars, fetchVars, batchVars, extVars>>

NextAccessor ==
    \/ AccessorCall
    \/ Tick

SpecAccessor == Init /\ [][NextAccessor]_vars

\* Startup and one batch run over the worklist.
BatchLoadConfig ==
    /\ \E c \in 1..MaxUserThreads : LoadConfig(c)
    /\ UNCHANGED <<cacheOpVars, fetchVars, accVars, extVars>>

BatchConfigureThreads ==
    /\ \E m \in ServerThreads : ConfigureThreads(m)
    /\ UNCHANGED <<cacheOpVars, fetchVars, accVars, extVars>>

BatchConfigureKeeps ==
    /\ \E fetched \in BOOLEAN : ConfigureKeeps(fetched)
    /\ UNCHANGED <<cacheOpVars, fetchVars, accVars, extVars>>

BatchConfigureAborts ==
    /\ ConfigureAborts
    /\ UNCHANGED <<cacheOpVars, fetchVars, accVars, extVars>>

BatchStart ==
    /\ BatchBegin
    /\ UNCHANGED <<cacheOpVars, fetchVars, accVars, extVars>>

BatchSubmitNext ==
    /\ \E i \in Items : BatchSubmit(i)
    /\ UNCHANGED <<cacheOpVars, fetchVars, accVars, extVars>>

BatchWorkerStart ==
    /\ \E i \in Items : WorkerStart(i)
    /\ UNCHANGED <<cacheOpVars, fetchVars, accVars, extVars>>

BatchWorkerFinish ==
    /\ \E i \in Items, r \in WorkerResults : WorkerFinish(i, r)
    /\ UNCHANGED <<cacheOpVars, fetchVars, accVars, extVars>>

BatchYield ==
    /\ \E i \in Items : MainYield(i)
    /\ UNCHANGED <<cacheOpVars, fetchVars, accVars, extVars>>

BatchCancel ==
    /\ MainCancel
    /\ UNCHANGED <<cacheOpVars, fetchVars, accVars, extVars>>

BatchJoin ==
    /\ MainJoin
    /\ UNCHANGED <<cacheOpVars, fetchVars, accVars, extVars>>

NextBatch ==
    \/ BatchLoadConfig
    \/ BatchConfigureThreads
    \/ BatchConfigureKeeps
    \/ BatchConfigureAborts
    \/ BatchStart
    \/ BatchSubmitNext
    \/ BatchWorkerStart
    \/ BatchWorkerFinish
    \/ BatchYield
    \/ BatchCancel
    \/ BatchJoin
    \/ Tick

SpecBatch == Init /\ [][NextBatch]_vars

\* The batch under fair scheduling: the main thread takes its next step of the submit
\* loop, the as_completed loop, the cancel loop and the exit of the with block when it
\* can, a pool thread takes the next queued work item when it is free, and a running
\* work item ends, every request of it returning or timing out (get tries at most
\* max_retries + 1 times with bounded sleeps).
SpecBatchFair ==
    /\ SpecBatch
    /\ WF_vars(BatchSubmitNext)
    /\ WF_vars(BatchWorkerStart)
    /\ WF_vars(BatchWorkerFinish)
    /\ WF_vars(BatchYield)
    /\ WF_vars(BatchCancel)
    /\ WF_vars(BatchJoin)

\* get_game_data, called one call after the other by the usernames.
QuotaCall ==
    /\ \E username \in Users, rom \in Roms, out \in GameOutcomes :
            GetGameData(username, rom, out)
    /\ UNCHANGED <<cacheOpVars, fetchVars, accVars, batchVars, raceVars, memoVars, diskVars, keyVars, pipeVars, countVars, clearVars, itemVars, ttlVars, screenVars>>

QuotaTick ==
    /\ QuotaElapse
    /\ UNCHANGED <<cacheOpVars, fetchVars, accVars, batchVars, raceVars, memoVars, diskVars, keyVars, pipeVars, countVars, clearVars, itemVars, ttlVars, screenVars>>

NextQuota ==
    \/ QuotaCall
    \/ QuotaTick

SpecQuota == Init /\ [][NextQuota]_vars

\* get_game_data and clear_rate_limit_cache, called one after the other.
QuotaClear ==
    /\ \E username \in Users : ClearRateLimitCache(username)
    /\ UNCHANGED <<cacheOpVars, fetchVars, accVars, batchVars, raceVars, memoVars, diskVars,
                   keyVars, pipeVars, countVars, itemVars, ttlVars, screenVars>>

NextClear ==
    \/ QuotaCall
    \/ QuotaTick
    \/ QuotaClear

SpecClear == Init /\ [][NextClear]_vars

\* get, set and invalidate on the api region, called by the workers at the same time.
OthersOfRace == <<cacheOpVars, fetchVars, accVars, batchVars, quotaVars, memoVars, diskVars, keyVars, pipeVars, countVars, clearVars, itemVars, ttlVars, screenVars>>

StepGetBegin ==
    /\ \E w \in Workers, k \in Keys : RaceGetBegin(w, k)
    /\ UNCHANGED OthersOfRace

StepGetIndex ==
    /\ \E w \in Workers : RaceGetIndex(w)
    /\ UNCHANGED OthersOfRace

StepGetExpired ==
    /\ \E w \in Workers : RaceGetExpired(w)
    /\ UNCHANGED OthersOfRace

StepGetDel ==
    /\ \E w \in Workers : RaceGetDel(w)
    /\ UNCHANGED OthersOfRace

StepSetBegin ==
    /\ \E w \in Workers, k \in Keys, v \in Payloads : RaceSetBegin(w, k, v)
    /\ UNCHANGED OthersOfRace

StepScanBegin ==
    /\ \E w \in Workers : RaceScanBegin(w)
    /\ UNCHANGED OthersOfRace

StepScanEnd ==
    /\ \E w \in Workers : RaceScanEnd(w)
    /\ UNCHANGED OthersOfRace

StepDelNext ==
    /\ \E w \in Workers : RaceDelNext(w)
    /\ UNCHANGED OthersOfRace

StepLen ==
    /\ \E w \in Workers : RaceLen(w)
    /\ UNCHANGED OthersOfRace

StepSort ==
    /\ \E w \in Workers : RaceSort(w)
    /\ UNCHANGED OthersOfRace

StepCount ==
    /\ \E w \in Workers : RaceCount(w)
    /\ UNCHANGED OthersOfRace

StepInvalidateBegin ==
    /\ \E w \in Workers, k \in Keys : RaceInvalidateBegin(w, k)
    /\ UNCHANGED OthersOfRace

StepInvalidateDel ==
    /\ \E w \in Workers : RaceInvalidateDel(w)
    /\ UNCHANGED OthersOfRace

RaceTick ==
    /\ Elapse
    /\ UNCHANGED <<fetchVars, accVars, batchVars, extVars>>

NextRace ==
    \/ StepGetBegin
    \/ StepGetIndex
    \/ StepGetExpired
    \/ StepGetDel
    \/ StepSetBegin
    \/ StepScanBegin
    \/ StepScanEnd
    \/ StepDelNext
    \/ StepLen
    \/ StepSort
    \/ StepCount
    \/ StepInvalidateBegin
    \/ StepInvalidateDel
    \/ RaceTick

SpecRace == Init /\ [][NextRace]_vars

\* One cached operation, called by the workers at the same time.
OthersOfMemo == <<cacheOpVars, fetchVars, accVars, batchVars, quotaVars, raceVars, diskVars, keyVars, pipeVars, countVars, clearVars, itemVars, ttlVars, screenVars>>

MemoCallGet ==
    /\ \E w \in Workers : MemoGet(w)
    /\ UNCHANGED OthersOfMemo

MemoCallFetch ==
    /\ \E w \in Workers, out \in FuncOutcomes : MemoFetch(w, out)
    /\ UNCHANGED OthersOfMemo

MemoCallSet ==
    /\ \E w \in Workers : MemoSet(w)
    /\ UNCHANGED OthersOfMemo

MemoTick ==
    /\ Elapse
    /\ UNCHANGED <<fetchVars, accVars, batchVars, extVars>>

NextMemo ==
    \/ MemoCallGet
    \/ MemoCallFetch
    \/ MemoCallSet
    \/ MemoTick

SpecMemo == Init /\ [][NextMemo]_vars

\* A store is filled, saved, and loaded into a fresh store.
OthersOfDisk == <<cacheOpVars, fetchVars, accVars, batchVars, quotaVars, raceVars, memoVars, keyVars, pipeVars, countVars, clearVars, itemVars, ttlVars, screenVars>>

\* The region that is saved: the one with room for more than one entry.
DiskRegion == "memory"

DiskFill ==
    /\ \E k \in Keys, v \in Values, ttl \in TtlArgs : Set(DiskRegion, k, v, ttl)
    /\ UNCHANGED <<fetchVars, accVars, batchVars, extVars>>

DiskSave ==
    /\ SaveToDisk(DiskRegion)
    /\ UNCHANGED OthersOfDisk

DiskLoad ==
    /\ LoadFromDisk
    /\ UNCHANGED OthersOfDisk

NextDisk ==
    \/ DiskFill
    \/ Tick
    \/ DiskSave
    \/ DiskLoad

SpecDisk == Init /\ [][NextDisk]_vars

\* The api region, the one save_all_caches saves, is set, saved and loaded back
\* into the store in use.
ReloadRegion == "api"

ReloadFill ==
    /\ \E k \in Keys, v \in Values, ttl \in TtlArgs : Set(ReloadRegion, k, v, ttl)
    /\ UNCHANGED <<fetchVars, accVars, batchVars, extVars>>

ReloadSave ==
    /\ SaveToDisk(ReloadRegion)
    /\ UNCHANGED OthersOfDisk

ReloadLoad ==
    /\ LoadFromDiskInPlace(ReloadRegion)
    /\ UNCHANGED <<cacheOpVars, OthersOfDisk>>

NextReload ==
    \/ ReloadFill
    \/ Tick
    \/ ReloadSave
    \/ ReloadLoad

SpecReload == Init /\ [][NextReload]_vars

\* set calls, each recorded with the ttl argument it was given.
TtlSet ==
    /\ \E r \in Regions, k \in Keys, v \in Values, ttl \in TtlArgs :
            /\ Set(r, k, v, ttl)
            /\ lastSet' = [region |-> r, key |-> k, ttl |-> ttl]
    /\ UNCHANGED <<fetchVars, accVars, batchVars, quotaVars, raceVars, memoVars, diskVars,
                   keyVars, pipeVars, countVars, clearVars, itemVars, screenVars>>

NextTtl ==
    \/ TtlSet
    \/ Tick

SpecTtl == Init /\ [][NextTtl]_vars

\* The windows of the application, one key at a time.
OthersOfScreen == <<now, cache, stats, cacheOpVars, fetchVars, accVars, batchVars, quotaVars,
                    raceVars, memoVars, diskVars, keyVars, pipeVars, countVars, clearVars,
                    itemVars, ttlVars>>

ScreenSelect ==
    /\ \E show \in BOOLEAN, m \in 0..NumListed : SelectSystem(show, m)
    /\ UNCHANGED OthersOfScreen

ScreenNoData ==
    /\ LoadRomsNoData
    /\ UNCHANGED OthersOfScreen

ScreenBack ==
    /\ RomsBack
    /\ UNCHANGED OthersOfScreen

ScreenNavigate ==
    /\ \E d \in {-1, 1} : RomsNavigate(d)
    /\ UNCHANGED OthersOfScreen

ScreenPage ==
    /\ \E step \in {-max_elem, max_elem, -LARGE_NAVIGATION_STEP, LARGE_NAVIGATION_STEP} :
            RomsPageNavigation(step)
    /\ UNCHANGED OthersOfScreen

ScreenScrape ==
    /\ \E res \in {"raised", "saved", "partial"} : ScrapeSingleRom(res)
    /\ UNCHANGED OthersOfScreen

ScreenDelete ==
    /\ \E had \in BOOLEAN : DeleteSingleRomMedia(had)
    /\ UNCHANGED OthersOfScreen

ScreenScrapeAll ==
    /\ \E c \in 0..NumListed, g \in 0..NumListed : ScrapeAllRoms(c, g)
    /\ UNCHANGED OthersOfScreen

NextScreen ==
    \/ ScreenSelect
    \/ ScreenNoData
    \/ ScreenBack
    \/ ScreenNavigate
    \/ ScreenPage
    \/ ScreenScrape
    \/ ScreenDelete
    \/ ScreenScrapeAll

SpecScreen == Init /\ [][NextScreen]_vars

\* Cache keys are derived for one pair of calls in a behaviour.
DeriveKeys ==
    /\ ~keyPair.set
    /\ \E a \in KeyCalls, b \in KeyCalls, ha \in HashRange, hb \in HashRange :
            GenerateCacheKeys(a, b, ha, hb)
    /\ UNCHANGED <<now, cache, stats, cacheOpVars, fetchVars, accVars, batchVars,
                   quotaVars, raceVars, memoVars, diskVars, pipeVars, countVars,
                   clearVars, itemVars, ttlVars, screenVars>>

NextKey ==
    \/ DeriveKeys

SpecKey == Init /\ [][NextKey]_vars

\* fetch_data and the call of get inside it, called by one worker, one call after
\* the other.
PipeWorkers == {1}

OthersOfPipe == <<cacheOpVars, accVars, batchVars, quotaVars, raceVars, memoVars, diskVars,
                  keyVars, countVars, clearVars, itemVars, ttlVars, screenVars>>

PipeBegin ==
    /\ \E w \in PipeWorkers, n \in RetryArgs :
            /\ GetBegin(w, n)
            /\ lastOut' = [lastOut EXCEPT ![w] = NoOutcome]
            /\ fdata' = [fdata EXCEPT ![w] = None]
    /\ UNCHANGED OthersOfPipe

PipeRequest ==
    /\ \E w \in PipeWorkers : GetRequest(w)
    /\ UNCHANGED <<lastOut, fdata, OthersOfPipe>>

PipeResponse ==
    /\ \E w \in PipeWorkers, o \in TransportOutcomes :
            /\ GetResponse(w, o)
            /\ lastOut' = [lastOut EXCEPT ![w] = o]
    /\ UNCHANGED <<fdata, OthersOfPipe>>

PipeSleep ==
    /\ \E w \in PipeWorkers : GetSleep(w)
    /\ UNCHANGED <<lastOut, fdata, OthersOfPipe>>

PipeParse ==
    /\ \E w \in PipeWorkers, doc \in Documents : FetchDataEnd(w, doc)
    /\ UNCHANGED OthersOfPipe

NextPipe ==
    \/ PipeBegin
    \/ PipeRequest
    \/ PipeResponse
    \/ PipeSleep
    \/ PipeParse
    \/ Tick

SpecPipe == Init /\ [][NextPipe]_vars

\* Workers call get on a region at the same time while the counters are read.
OthersOfStats == <<cacheOpVars, fetchVars, accVars, batchVars, quotaVars, raceVars, memoVars,
                   diskVars, keyVars, pipeVars, clearVars, itemVars, ttlVars, screenVars>>

StatsMissLoad ==
    /\ \E w \in Workers, k \in Keys : GetMissLoad(w, k)
    /\ UNCHANGED OthersOfStats

StatsMissStore ==
    /\ \E w \in Workers : GetMissStore(w)
    /\ UNCHANGED OthersOfStats

StatsObserve ==
    /\ GetStatsObserve
    /\ UNCHANGED OthersOfStats

NextStats ==
    \/ StatsMissLoad
    \/ StatsMissStore
    \/ StatsObserve

SpecStats == Init /\ [][NextStats]_vars

\* One work item, processed once.
WorkItem ==
    /\ ~item.done
    /\ \E lookup \in LookupOutcomes, ob \in TransportOutcomes, op \in TransportOutcomes,
          saveOk \in BOOLEAN : ProcessItem(lookup, ob, op, saveOk)
    /\ UNCHANGED <<now, cache, stats, cacheOpVars, fetchVars, accVars, batchVars,
                   quotaVars, raceVars, memoVars, diskVars, keyVars, pipeVars, countVars,
                   clearVars, ttlVars, screenVars>>

NextItem ==
    \/ WorkItem

SpecItem == Init /\ [][NextItem]_vars

\* ------------------------------------------------------------------ claims

\* The entries of region r.
Entries(r) == {cache[r][i] : i \in 1..Len(cache[r])}

\* What the last get returned agrees with the region it left behind.
GetRetConsistent ==
    ret.op = "get" =>
        IF ret.value = None
        THEN \A e \in Entries(ret.region) : e.key = ret.key => e.data = None
        ELSE \E e \in Entries(ret.region) : e.key = ret.key /\ e.data = ret.value

\* C2, as stated: for every entry stored with a payload at time t with ttl d, get
\* returns absent if and only if now >= t + d, and the stored value otherwise.
C2_AbsentIffNowAtLeastExpiry ==
    \A r \in Regions : \A e \in Entries(r) :
        e.data # None =>
            /\ (GetResult(cache[r], e.key, now) = None) <=> (now >= e.timestamp + e.ttl)
            /\ GetResult(cache[r], e.key, now) \in {None, e.data}

\* C2, amended: for every entry stored with a payload at time t with ttl d, get
\* returns absent if and only if now > t + d, and the stored value otherwise; at
\* the instant now = t + d the entry is still served.
C2_AbsentIffNowPastExpiry ==
    /\ \A r \in Regions : \A e \in Entries(r) :
        e.data # None =>
            /\ (GetResult(cache[r], e.key, now) = None) <=> (now > e.timestamp + e.ttl)
            /\ GetResult(cache[r], e.key, now) \in {None, e.data}
    /\ GetRetConsistent

\* C2's case: a get has just returned the payload of an entry at the very instant
\* now = t + d.
C2_Witness ==
    /\ ret.op = "get"
    /\ ret.value \in Payloads
    /\ \E e \in Entries(ret.region) :
        e.key = ret.key /\ e.data = ret.value /\ now = e.timestamp + e.ttl

C1_ForbiddenSuppressesLaterCalls ==
    \A w \in Workers :
        fetch[w].afterForbidden =>
            /\ fetch[w].pc = "idle"
            /\ fetch[w].result = "ForbiddenError"
            /\ fetch[w].transports = 0

RECURSIVE SumSeq(_)
SumSeq(q) == IF q = <<>> THEN 0 ELSE Head(q) + SumSeq(Tail(q))

C5_OneFetchPerWindow ==
    (lastCall.key # "" /\ lastCall.prevOk) =>
        /\ ~lastCall.fetched
        /\ lastCall.value = lastCall.prevValue

\* The thread count the run is bound by: the configured count, clamped to the
\* server's maxthreads when the server advertised one.
W == IF serverMax = <<>> THEN configured
     ELSE IF configured < serverMax[1] THEN configured ELSE serverMax[1]

\* C6: once the loop has observed a RateLimitError, no item that had not started at
\* that moment is ever started.
C6_NoStartAfterQuotaObserved ==
    \A i \in pendingAtHalt : future[i] \in {"PENDING", "CANCELLED"}

\* C7: when the batch is done every item is accounted for once, as completed, as
\* failed (its error logged by the loop) or as cancelled, so the three add up to N;
\* and when the quota halt found items not yet started, at least one is cancelled.
C7_EveryItemAccounted ==
    bpc = "done" =>
        /\ completed + Cardinality(logged) + Cardinality(InState("CANCELLED")) = NumItems
        /\ pendingAtHalt # {} => InState("CANCELLED") # {}

\* C8: from the end of startup on, self.config.threads is W and stays W, and at every
\* moment of the run at most W items are in flight.
C8_InFlightAtMostW ==
    bpc \notin {"init", "startup"} =>
        /\ threads = W
        /\ Cardinality(InState("RUNNING")) <= W

\* C8's case: the server's maxthreads is below the configured count, W items are in
\* flight and another item waits for a thread.
C8_Witness ==
    /\ bpc = "draining"
    /\ serverMax # <<>>
    /\ serverMax[1] < configured
    /\ Cardinality(InState("RUNNING")) = serverMax[1]
    /\ InState("PENDING") # {}

\* C9: a yielded ForbiddenError is logged as that item's failure and not counted as
\* completed; only a yielded RateLimitError halts the batch, so without one no future
\* is cancelled, the loop does not break, and the batch ends with every item run.
C9_ForbiddenDoesNotHalt ==
    /\ \A i \in yielded : outcome[i] = "ForbiddenError" => i \in logged
    /\ completed = Cardinality({i \in yielded : outcome[i] \in {"ok", "failed"}})
    /\ quota_exceeded <=> \E i \in yielded : outcome[i] = "RateLimitError"
    /\ InState("CANCELLED") # {} => quota_exceeded
    /\ bpc = "cancelling" => quota_exceeded
    /\ (bpc = "done" /\ ~quota_exceeded) =>
            /\ yielded = Items
            /\ \A i \in Items : future[i] = "FINISHED"

\* C9's case: the loop has handled the ForbiddenError of item 1 and goes on: a later
\* item is in flight, another still waits, nothing is cancelled.
C9_Witness ==
    /\ bpc = "draining"
    /\ 1 \in yielded
    /\ outcome[1] = "ForbiddenError"
    /\ 1 \in logged
    /\ InState("RUNNING") # {}
    /\ InState("PENDING") # {}
    /\ InState("CANCELLED") = {}

\* C10: no result of a work item makes an exception leave the loop; the batch error
\* is reported only when the pool could not be constructed, before any item was
\* submitted.
C10_NeverRaisesOnItemFailure ==
    /\ bpc # "unwinding"
    /\ bpc = "error" => (threads <= 0 /\ \A i \in Items : future[i] = "NONE")
    /\ (bpc = "done" /\ quota_exceeded) => \E i \in yielded : outcome[i] = "RateLimitError"

\* C10's case: the batch has returned its summary after a failed item, a
\* ForbiddenError and a RateLimitError.
C10_Witness ==
    /\ bpc = "done"
    /\ \E i, j, k \in yielded :
        /\ outcome[i] = "failed"
        /\ outcome[j] = "ForbiddenError"
        /\ outcome[k] = "RateLimitError"

\* C11: while the last quota failure of a username is no older than 600 s, the
\* memory region holds that username's marker, written at the failure with TTL 600,
\* and every call of get_game_data by that username that misses the result cache
\* raises RateLimitError with no transport call, for any rom; a call by a username
\* without such a failure is not suppressed and reaches the transport.
C11_QuotaMarkerPerUser ==
    /\ \A u \in Users : WithinQuotaWindow(u, now) =>
            \E e \in Entries("memory") :
                /\ e.key = "quota_exceeded_" \o u
                /\ e.data = "True"
                /\ e.ttl = 600
                /\ e.timestamp = quotaSeen[u][1].at
    /\ (lastGame.user # "" /\ ~lastGame.cached) =>
            IF lastGame.within
            THEN lastGame.raised = "RateLimitError" /\ ~lastGame.transported
            ELSE lastGame.transported

\* C11's case: a username's call for another rom than the one that hit the quota has
\* been suppressed, while the other username has no marker.
C11_Witness ==
    /\ lastGame.user = "u1"
    /\ lastGame.within
    /\ lastGame.raised = "RateLimitError"
    /\ ~lastGame.transported
    /\ quotaSeen["u1"] # <<>>
    /\ quotaSeen["u1"][1].rom # lastGame.rom
    /\ quotaSeen["u2"] = <<>>

\* C12: concurrent set, get and invalidate calls on a region are atomic: no call
\* fails with an error because another call changed the region in the middle of it,
\* and once the calls have returned the region is within its size bound.
C12_CallsAtomic ==
    /\ stats.errors = 0
    /\ (\A w \in Workers : race[w].pc = "idle") =>
            Len(cache["api"]) <= _get_max_size("api")

\* C13: after two concurrent callers have both missed, both fetched and both written,
\* the cache holds the value written last, and a later call within the TTL returns
\* that value without fetching.
C13_LastWriteWinsThenServed ==
    /\ AfterTwoWrites(now) =>
            \E e \in Entries("api") :
                e.key = MemoKey /\ e.data = memoLog.writes[Len(memoLog.writes)]
    /\ \A w \in Workers : (memoCall[w].late /\ memoCall[w].done) =>
            /\ ~memoCall[w].fetched
            /\ memoCall[w].value = memoLog.writes[Len(memoLog.writes)]

\* C14: after a region was saved and loaded into a fresh store, at every later
\* time get on the fresh store returns for every key what get on the saved region
\* returns, every entry of the fresh store is an entry of the saved region with its
\* creation time and TTL, and no entry that had expired by the time of the load is in
\* the fresh store.
C14_SaveLoadRoundTrip ==
    fresh # <<>> =>
        LET f == fresh[1].dict
            o == disk[1].orig
        IN  /\ \A k \in Keys : GetResult(f, k, now) = GetResult(o, k, now)
            /\ \A i \in 1..Len(f) : \E j \in 1..Len(o) : f[i] = o[j]
            /\ \A i \in 1..Len(f) : fresh[1].at <= f[i].timestamp + f[i].ttl
            /\ \A j \in 1..Len(o) :
                    (fresh[1].at <= o[j].timestamp + o[j].ttl) =>
                        \E i \in 1..Len(f) : f[i] = o[j]

\* C14's case: the saved region held a payload that was loaded and is served by the
\* fresh store, and another entry that expired between the save and the load and is
\* absent from the fresh store.
C14_Witness ==
    /\ fresh # <<>>
    /\ \E k \in Keys : GetResult(fresh[1].dict, k, now) \in Payloads
    /\ \E j \in 1..Len(disk[1].orig) :
            /\ disk[1].at <= disk[1].orig[j].timestamp + disk[1].orig[j].ttl
            /\ fresh[1].at > disk[1].orig[j].timestamp + disk[1].orig[j].ttl
            /\ disk[1].orig[j].key \notin DictKeys(fresh[1].dict)

\* The two calls name the same function with the same positional arguments and the
\* same named arguments, whatever the order the named arguments were written in.
SameCall(a, b) ==
    /\ a.name = b.name
    /\ a.args = b.args
    /\ {a.kwargs[i] : i \in 1..Len(a.kwargs)} = {b.kwargs[i] : i \in 1..Len(b.kwargs)}

IsCall(op) == ops' = ops + 1 /\ ret'.op = op

\* The entry get(ret'.key) finds in the region before the step, if any.
Found == ret'.key \in DictKeys(cache[ret'.region])

FoundEntry == DictGet(cache[ret'.region], ret'.key)

\* C16: a get of a key whose entry is unexpired returns the entry's value and
\* writes nothing: keys, values, creation times and TTLs of every region stay as
\* they were; a get that repeats the preceding get returns the identical value.
C16_GetOfUnexpiredIsPure ==
    [][(IsCall("get") /\ Found /\ ~is_expired(FoundEntry, now)) =>
            /\ ret'.value = FoundEntry.data
            /\ cache' = cache
            /\ (ret.op = "get" /\ ret.region = ret'.region /\ ret.key = ret'.key)
                    => ret'.value = ret.value]_vars

\* C16's case: the same stored payload has been served by two gets and is still in
\* its region.
C16_Witness ==
    /\ ret.op = "get"
    /\ ret.value \in Payloads
    /\ stats.hits = 2
    /\ ops = 3
    /\ \E e \in Entries(ret.region) : e.key = ret.key /\ e.data = ret.value

\* C17: a get that finds an expired entry removes that entry and no other, returns
\* absent, leaves the hit counter and adds one to the miss counter.
C17_ExpiredGetRemovesAndMisses ==
    [][(IsCall("get") /\ Found /\ is_expired(FoundEntry, now)) =>
            /\ ret'.value = None
            /\ cache' = [cache EXCEPT ![ret'.region] = DictDel(@, ret'.key)]
            /\ ret'.key \notin DictKeys(cache'[ret'.region])
            /\ stats'.hits = stats.hits
            /\ stats'.misses = stats.misses + 1]_vars

\* C17's case: after one set and the passing of the entry's ttl a get has removed
\* the expired entry and been counted as a miss.
C17_Witness ==
    /\ ops = 2
    /\ ret.op = "get"
    /\ ret.value = None
    /\ stats.evictions = 1
    /\ stats.misses = 1
    /\ stats.hits = 0
    /\ ret.key \notin DictKeys(cache[ret.region])

\* The keys of the region a set writes to whose entries are unexpired once the set
\* has stored its own.
UnexpiredAfterInsert ==
    {ret'.key} \cup {k \in DictKeys(cache[ret'.region]) :
                        ~is_expired(DictGet(cache[ret'.region], k), now)}

\* C18: when set returns its region holds no expired entry, and the expired were
\* purged before the size was enforced: no expired entry is among those evicted for
\* size, and the entries evicted for size and the entries that stay are together
\* the unexpired ones.
C18_SetPurgesExpiredFirst ==
    [][IsCall("set") =>
            /\ \A i \in 1..Len(cache'[ret'.region]) :
                    ~is_expired(cache'[ret'.region][i], now')
            /\ \A e \in evicted' : ~is_expired(e, now')
            /\ DictKeys(cache'[ret'.region]) \cup {e.key : e \in evicted'}
                    = UnexpiredAfterInsert]_vars

\* C18's case: a set on a region that held an expired entry has purged it, without
\* evicting anything for size.
C18_Witness ==
    /\ ops = 2
    /\ ret.op = "set"
    /\ stats.evictions = 1
    /\ evicted = {}
    /\ DictKeys(cache[ret.region]) = {ret.key}

\* What an invalidate step leaves behind: the key is gone from its region and get
\* returns absent for it, the other keys of the region and the other regions are
\* as they were.
InvalidateLeaves ==
    /\ cache' = [cache EXCEPT ![ret'.region] = DictDel(@, ret'.key)]
    /\ ret'.key \notin DictKeys(cache'[ret'.region])
    /\ GetResult(cache'[ret'.region], ret'.key, now') = None

\* C19, as stated: invalidate returns true if and only if an entry for the key was
\* observable by get, and removes it; afterwards get returns absent for the key,
\* and other keys and regions are unchanged.
C19_TrueIffObservableByGet ==
    [][IsCall("invalidate") =>
            /\ (ret'.value = "True")
                    <=> (GetResult(cache[ret'.region], ret'.key, now) # None)
            /\ InvalidateLeaves]_vars

\* C19, amended: invalidate returns true if and only if the region held an entry
\* under the key, whether or not get would still have served it (an expired entry
\* not yet purged, or an entry whose value is None, counts), and removes it;
\* afterwards get returns absent for the key, and other keys and regions are
\* unchanged.
C19_TrueIffStored ==
    [][IsCall("invalidate") =>
            /\ (ret'.value = "True") <=> Found
            /\ InvalidateLeaves]_vars

\* C19's case: invalidate has answered True and removed its key, one
\* set and the passing of time enough for a ttl of ClockStep to run out.
C19_Witness ==
    /\ ops = 2
    /\ ret.op = "invalidate"
    /\ ret.value = "True"
    /\ now = MaxClock
    /\ stats.evictions = 0
    /\ ret.key \notin DictKeys(cache[ret.region])

\* C20: clear(region) empties that region and leaves the others as they were,
\* clear() empties every region, and neither changes a statistics counter.
C20_ClearEmptiesExactly ==
    [][IsCall("clear") =>
            /\ stats' = stats
            /\ IF ret'.region = None
               THEN \A x \in Regions : cache'[x] = <<>>
               ELSE cache' = [cache EXCEPT ![ret'.region] = <<>>]]_vars

\* C20's case: clear(region) has emptied its region while another region keeps an
\* entry, after a hit was counted.
C20_Witness ==
    /\ ret.op = "clear"
    /\ ret.region \in Regions
    /\ cache[ret.region] = <<>>
    /\ \E x \in Regions \ {ret.region} : cache[x] # <<>>
    /\ stats.hits = 1

\* The statuses C21 names: bad request, forbidden, not found, thread limit, quota.
PermanentCodes == {400, 403, 404, 429, 430}

\* C21: when the latest attempt of a call of get was answered with 400, 403, 404, 429
\* or 430, the call has ended raising the error the handler has for that status, with
\* no sleep and no transport call after that answer.
C21_PermanentStatusRaisesItsError ==
    \A w \in Workers :
        (lastOut[w].t = "http_error" /\ lastOut[w].code \in PermanentCodes) =>
            /\ fetch[w].pc = "idle"
            /\ fetch[w].result = HttpErrorHandler(lastOut[w].code).exc
            /\ Len(fetch[w].sleeps) = fetch[w].transports - 1

\* C22: when the latest attempt of a call of get was answered with a successful
\* status and an empty body, the call has ended: no sleep and no transport call
\* follows that answer.
C22_EmptyBodyNotRetried ==
    \A w \in Workers :
        lastOut[w].t = "empty" =>
            /\ fetch[w].pc = "idle"
            /\ fetch[w].result # None
            /\ Len(fetch[w].sleeps) = fetch[w].transports - 1

\* A timeout, a connection error or a 5xx answer.
RetryableOutcome(o) ==
    \/ o.t \in {"timeout", "connection"}
    \/ (o.t = "http_error" /\ o.code >= 500)

\* C23: a call of get whose latest attempt ended in a timeout, a connection error or
\* a 5xx answer goes on to another attempt unless that was attempt max_retries + 1,
\* and then it raises NetworkError, the classified error of that attempt; a call whose
\* latest attempt brought a body returns it.
C23_RetryableOutcomesRetried ==
    \A w \in Workers :
        /\ (RetryableOutcome(lastOut[w]) /\ fetch[w].pc = "idle") =>
                /\ fetch[w].transports = fetch[w].max_retries + 1
                /\ fetch[w].result = "NetworkError"
        /\ lastOut[w].t = "body" =>
                (fetch[w].pc = "idle" /\ fetch[w].result = "content")

\* The forbidden marker is served by the cache in the state after the step.
MarkerPresentAfter == Truthy(GetResult(cache'["memory"], forbidden_key, now'))

\* C27: at the step at which a ForbiddenError reaches the caller, raised by get or by
\* fetch_data over a forbidden error document, the forbidden marker is in the cache.
C27_MarkerPresentWhenForbiddenRaised ==
    [][\A w \in Workers :
        /\ (fetch'[w].result = "ForbiddenError" /\ fetch[w].result # "ForbiddenError")
                => MarkerPresentAfter
        /\ (fdata'[w] = "ForbiddenError" /\ fdata[w] # "ForbiddenError")
                => MarkerPresentAfter]_vars

\* C30: a call of get that begins after a 403 answer fails at once with
\* ForbiddenError, without a transport call, if it begins within 300 s of that
\* answer, and goes on to its transport call if it begins later, whatever other
\* calls were made or are in flight.
C30_BreakerOpenForTtlThenCloses ==
    [][\A w \in Workers :
        (began' = began + 1 /\ fetch'[w] # fetch[w] /\ forbiddenSeen # <<>>) =>
            IF now <= forbiddenSeen[1] + FORBIDDEN_TTL
            THEN /\ fetch'[w].pc = "idle"
                 /\ fetch'[w].result = "ForbiddenError"
                 /\ fetch'[w].transports = 0
            ELSE fetch'[w].pc = "request"]_vars

\* C24: no counter that get_stats returns is smaller than it was in what get_stats
\* returned before, whatever the interleaving of the workers' cache operations.
C24_CountersNeverDecrease ==
    [][\A c \in CounterNames : seen'[c] >= seen[c]]_vars

\* C25: a call of clear_rate_limit_cache(username) returns True and removes the
\* user's quota marker when the cache served an unexpired marker, so that the marker
\* no longer suppresses the user's calls; otherwise it returns False and what the
\* cache serves is as it was.
C25_ClearRemovesMarker ==
    [][clears' = clears + 1 =>
        LET key == QuotaKey(lastClear'.user)
        IN  IF Truthy(GetResult(cache["memory"], key, now))
            THEN /\ lastClear'.result = "True"
                 /\ key \notin DictKeys(cache'["memory"])
                 /\ ~Truthy(GetResult(cache'["memory"], key, now'))
            ELSE /\ lastClear'.result = "False"
                 /\ \A r \in Regions : \A e \in Entries(r) :
                        GetResult(cache'[r], e.key, now') = GetResult(cache[r], e.key, now)
       ]_vars

\* The service answered the download with a quota status, or with 403.
QuotaAnswer(o) == o.t = "http_error" /\ o.code \in {429, 430}

ForbiddenAnswer(o) == o.t = "http_error" /\ o.code = 403

\* The item's download of the box was issued, and so was that of the preview.
BoxIssued == item.lookup = "game"

PreviewIssued == item.lookup = "game" /\ FetchMedia(item.box) = "content"

\* C28: a RateLimitError or ForbiddenError of the item's metadata lookup is what the
\* worker gives its future, and so is the quota or forbidden failure of its box or
\* preview download: a quota failure of a download halts the batch.
C28_FailureKindReachesLoop ==
    item.done =>
        /\ item.lookup \in {"RateLimitError", "ForbiddenError"} => item.result = item.lookup
        /\ ((BoxIssued /\ QuotaAnswer(item.box)) \/ (PreviewIssued /\ QuotaAnswer(item.preview)))
                => (item.result = "RateLimitError" /\ LoopHandler(item.result) = "halt")
        /\ ((BoxIssued /\ ForbiddenAnswer(item.box))
                \/ (PreviewIssued /\ ForbiddenAnswer(item.preview)))
                => item.result = "ForbiddenError"

\* C29: the items counted as completed are those whose worker saved everything and
\* reported success; an item whose processing failed with a kind other than
\* RateLimitError and ForbiddenError is recorded by the loop as a failure, is not
\* counted as completed, and does not halt the batch.
C29_CompletedOnlyOnSuccess ==
    /\ completed = Cardinality({i \in yielded : outcome[i] = "ok"})
    /\ \A i \in yielded : outcome[i] = "failed" => i \in logged
    /\ (quota_exceeded => \E i \in yielded : outcome[i] = "RateLimitError")

\* The pool of the batch run was built and the run has not drawn its summary yet.
RunInProgress == bpc \in {"submitting", "draining", "cancelling", "joining"}

\* C26: under fair scheduling a batch run whose pool was built draws its summary and
\* returns, whatever its work items end with (success, RateLimitError,
\* ForbiddenError, another failure).
C26_BatchRunReachesDone == RunInProgress ~> (bpc = "done")

\* A run that returned after items ended with a quota error, a forbidden error,
\* another failure and a success.
C26_Witness ==
    /\ bpc = "done"
    /\ {outcome[i] : i \in Items} \in
            {{"ok", "RateLimitError", "ForbiddenError"}, {"failed", "RateLimitError", "ForbiddenError"}}
    /\ quota_exceeded

\* The keys of the suppression markers of the batch's user.
MarkerKeys == {quota_key, forbidden_key}

\* The marker of key k is stored in the memory region and has not expired.
MarkerLive(k) ==
    /\ k \in DictKeys(cache["memory"])
    /\ ~is_expired(DictGet(cache["memory"], k), now)

\* C31: while a suppression marker is present and unexpired no step rewrites it:
\* the next state holds the same entry, with the same creation time and TTL.
C31_MarkerNeverRewritten ==
    [][\A k \in MarkerKeys :
            MarkerLive(k) =>
                /\ k \in DictKeys(cache'["memory"])
                /\ DictGet(cache'["memory"], k) = DictGet(cache["memory"], k)]_vars

\* The unexpired entries of the memory region, where the markers are kept.
LiveMarkers(c, t) == {c["memory"][i] : i \in {j \in 1..Len(c["memory"]) : ~is_expired(c["memory"][j], t)}}

\* The step is the end of a transport call of worker w, and what the pass of the
\* retry loop made of it.
ResponseStep(w) == fetch[w].pc = "waiting" /\ fetch'[w].pc # "waiting"

EndedWith(w) == IF fetch'[w].pc = "sleep" THEN fetch'[w].last_exception ELSE fetch'[w].result

LiveEntries(d, t) == {d[i] : i \in {j \in 1..Len(d) : ~is_expired(d[j], t)}}

\* The step is a call of a cached operation that ran the wrapped function, which raised.
FailedCall == fetches' # fetches /\ lastCall'.fetched /\ lastCall'.raised

C34_SizeBoundAfterLoad ==
    \A r \in Regions : Len(cache[r]) <= _get_max_size(r)

\* The items whose progress message was drawn: the message is built in the try
\* block after future.result() returned, so an item has one exactly when the loop
\* took none of its except handlers for it.
Reported == yielded \ logged

\* C35: every item the as_completed loop has yielded has its progress report, the
\* completed count is the number of reports, and it is at most the total.
C35_ProgressForEveryResolvedItem ==
    /\ \A i \in yielded : i \in Reported
    /\ completed = Cardinality(Reported)
    /\ completed <= NumItems

\* The entry the last set call left under its key.
LastSetEntry == DictGet(cache[lastSet.region], lastSet.key)

\* C36: the entry a set call leaves under its key has the ttl argument as its TTL
\* when one was given, 0 included, and the default of its region when none was.
C36_StoredTtlIsArgument ==
    (lastSet.key \in DictKeys(cache[lastSet.region])) =>
        LastSetEntry.ttl = IF lastSet.ttl = <<>> THEN _get_default_ttl(lastSet.region)
                           ELSE lastSet.ttl[1]

\* The step reads a key of the cache: every CacheManager.get counts a hit or a miss.
CacheRead == stats'.hits + stats'.misses > stats.hits + stats.misses

\* Worker w leaves the sleep of the retry tail for the next pass of the loop.
RetryPassBegins(w) == fetch[w].pc = "sleep" /\ fetch'[w].pc = "request"

\* Worker w issues its transport call.
TransportBegins(w) == fetch[w].pc = "request" /\ fetch'[w].pc = "waiting"

\* C37: a worker reads the forbidden marker again when it begins a retry pass, and
\* no transport call is issued while the marker is present and unexpired.
C37_BreakerReadBeforeEachAttempt ==
    [][\A w \in Workers :
            /\ RetryPassBegins(w) => CacheRead
            /\ TransportBegins(w) => ~Truthy(GetResult(cache["memory"], forbidden_key, now))]_vars

\* C38: once the threads are configured the pool size is at least 1, so a batch
\* builds its pool and never ends in the batch error of a pool that cannot be built.
C38_PoolSizeAtLeastOne ==
    /\ bpc \notin {"init", "startup"} => threads >= 1
    /\ bpc = "error" => threads >= 1

\* The step is a call of get_game_data; the entry of its arguments in the api region
\* before the call, when there is an unexpired one; the caller's marker before the call.
GameCallStep == gameCalls' = gameCalls + 1

CalledKey == GameKey(lastGame'.user, lastGame'.rom)

HasCachedResult ==
    /\ CalledKey \in DictKeys(cache["api"])
    /\ ~is_expired(DictGet(cache["api"], CalledKey), now)

CallerMarked == Truthy(GetResult(cache["memory"], QuotaKey(lastGame'.user), now))

\* C39: a call of get_game_data whose arguments have an unexpired cached result
\* returns that result without fetching, whether the caller's quota marker is present
\* or not, and a call the marker fails fast is a call that had no cached result.
C39_CacheLookupPrecedesQuotaCheck ==
    [][GameCallStep =>
            /\ HasCachedResult =>
                    /\ lastGame'.raised = "None"
                    /\ ~lastGame'.transported
                    /\ lastGame'.value = DictGet(cache["api"], CalledKey).data
            /\ (lastGame'.raised = "RateLimitError" /\ ~lastGame'.transported) =>
                    (CallerMarked /\ ~HasCachedResult)]_vars

\* C40: whenever a ROM was picked for scraping or deletion, the index used was a
\* valid index of the list it was picked from.
C40_PickedIndexValid ==
    screen.pick # <<>> =>
        (0 <= screen.pick[1].pos /\ screen.pick[1].pos < screen.pick[1].len)

====
